---- MODULE Spec2Model ----
(***************************************************************************)
(* efdstream: a parent process and the child it spawns exchange byte       *)
(* messages over two simplex channels, P2C and C2P.  Each channel is a     *)
(* memfd region plus two eventfd counters (send, ack).                     *)
(*                                                                         *)
(* The model follows the Go library (package efd: ShmParent, ShmChild),    *)
(* and, for setup and teardown, also the C port (shm_parent_start,         *)
(* shm_parent_close), selected by the variable impl.  The earlier          *)
(* single-channel library has its own actions (suffix V1) and its own      *)
(* specification, SpecV1.                                                  *)
(***************************************************************************)
EXTENDS Integers, Sequences, FiniteSets, TLC

\* ------------------------------------------------------------------------
\* Bounds of the model
\* ------------------------------------------------------------------------

\* shmSize handed to NewShmParent and, through -shm-size, to NewShmChild.
ShmSize == 2

\* SendData calls made by the callers of both endpoints together.
MaxCalls == 3

\* Close calls made by the parent's caller.
MaxClose == 2

\* ------------------------------------------------------------------------
\* Program constants
\* ------------------------------------------------------------------------

\* ExtraFiles[0] is descriptor 3 in the child; six files are passed.
FirstSlot == 3
LastSlot == 8

\* Width of an eventfd transfer: lenBuf := make([]byte, 8).
EfdBytes == 8

\* Mutant of AckValue: the receiver posts 2.
AckTwice == 1 + 1

\* The value Listen and ReadData post on the ack counter.
AckValue == 1

Impls == {"go", "c"}
Fds == 0..LastSlot
Byte == 0..255

Counters == {"efdP2CSend", "efdP2CAck", "efdC2PSend", "efdC2PAck"}
Regions == {"memfdP2C", "memfdC2P"}
Objects == Counters \cup Regions
Chans == {"p2c", "c2p"}

\* The execution contexts that may enter SendData on one endpoint.
SenderCtx == {1, 2}

\* ------------------------------------------------------------------------
\* Payloads the callers pass to SendData: one per sender side and length,
\* lengths 0..ShmSize+1; no payload is a prefix of another.
\* ------------------------------------------------------------------------
Pattern(side, L) == [i \in 1..L |-> (side * 100 + L * 10 + i) % 256]
ParentPayloads == {Pattern(1, L) : L \in 0..(ShmSize + 1)}
ChildPayloads == {Pattern(2, L) : L \in 0..(ShmSize + 1)}

\* ------------------------------------------------------------------------
\* Library and kernel primitives the endpoints call
\* ------------------------------------------------------------------------

\* binary.LittleEndian.PutUint64(buf, v): the 8 bytes of v, low byte first.
RECURSIVE LEBytes(_, _)
LEBytes(v, n) == IF n = 0 THEN <<>> ELSE <<v % 256>> \o LEBytes(v \div 256, n - 1)
PutUint64(v) == LEBytes(v, EfdBytes)

\* binary.LittleEndian.Uint64(buf): the value of 8 bytes, low byte first.
RECURSIVE LEValue(_, _)
LEValue(buf, i) == IF i > Len(buf) THEN 0 ELSE buf[i] + 256 * LEValue(buf, i + 1)
Uint64(buf) == LEValue(buf, 1)

\* Mutant of GoCopy: nothing is copied.
GoCopyNothing(dst, src) == dst

\* copy(dst, src): min(len(dst), len(src)) bytes of src over the front of dst.
GoCopy(dst, src) ==
  [i \in 1..Len(dst) |-> IF i <= Len(src) THEN src[i] ELSE dst[i]]

\* A region of n bytes as ftruncate leaves it: zero filled.
ZeroRegion(n) == [i \in 1..n |-> 0]

\* Mutant of EventfdWrite: a write of zero still makes the counter readable.
EventfdWriteZeroWakes(counter, buf) ==
  counter + (IF Uint64(buf) = 0 THEN 1 ELSE Uint64(buf))

\* eventfd write: the 8 bytes, read in host order, are added to the counter.
EventfdWrite(counter, buf) == counter + Uint64(buf)

\* Mutant of EventfdReadable: a read that never blocks (a counter opened
\* non-blocking whose EAGAIN is ignored).
EventfdNeverBlocks(counter) == TRUE

\* eventfd read blocks while the counter is zero.
EventfdReadable(counter) == counter > 0

\* eventfd read: returns the counter as 8 bytes; the counter becomes zero.
EventfdRead(counter) == PutUint64(counter)

\* The lowest descriptor number free in a descriptor table.
LowestFree(tbl) == CHOOSE n \in Fds : tbl[n] = "closed" /\ \A k \in 0..(n - 1) : tbl[k] # "closed"

\* ------------------------------------------------------------------------
\* State
\* ------------------------------------------------------------------------
VARIABLES
  impl,        \* which port both endpoints run: "go" or "c"
  nSenders,    \* how many contexts the callers let into SendData per endpoint
  flags,       \* the -fd-* flags on the child's command line
  parentProc,  \* the parent process: "running" or "crashed"
  pstate,      \* the parent endpoint: "new", "started" or "failed"
  pfd,         \* the parent's descriptor table: descriptor -> object
  P,           \* the fields of ShmParent
  pmaps,       \* the regions mapped in the parent's address space
  pfreed,      \* C port: the shm_parent_t has been freed
  pclose,      \* C port: the statement shm_parent_close is at; 0 outside the call
  childProc,   \* "none", "running", "signalled", "zombie" or "reaped"
  cfd,         \* the child's descriptor table
  C,           \* the fields of ShmChild
  cmaps,       \* the regions mapped in the child's address space
  cClosed,     \* Close calls made on the ShmChild
  shm,         \* the bytes of each region
  efd,         \* the value of each eventfd counter
  ps,          \* parent SendData, per context: position and locals
  pr,          \* parent ReadData: position and locals
  cl,          \* child Listen: position and locals
  cs,          \* child SendData, per context: position and locals
  posted,      \* per channel: the payloads announced on the send counter
  delivered,   \* per channel: the payloads handed to the handler / returned
  sentOK,      \* per channel: the payloads whose SendData returned nil
  nCalls,      \* SendData calls made so far
  closeLog     \* per Close call of the parent: the kernel requests it made

vars == <<impl, nSenders, flags, parentProc, pstate, pfd, P, pmaps, pfreed, pclose,
          childProc, cfd, C, cmaps, cClosed, shm, efd, ps, pr, cl, cs, posted, delivered, sentOK,
          nCalls, closeLog>>

\* Groups used in UNCHANGED clauses.
parentRes == <<pstate, pfd, P, pmaps, pfreed, pclose, parentProc>>
childRes == <<childProc, cfd, C, cmaps, cClosed>>
config == <<impl, nSenders, flags>>
hist == <<posted, delivered, sentOK>>

\* NewShmParent: only childPath and shmSize are set; every other field holds
\* its zero value (the C port memsets the struct to 0).
NewShmParent(shmSize) ==
  [shmSize |-> shmSize,
   efdP2CSend |-> 0, efdP2CAck |-> 0, memfdP2C |-> 0, shmP2CPtr |-> "nil",
   efdC2PSend |-> 0, efdC2PAck |-> 0, memfdC2P |-> 0, shmC2PPtr |-> "nil",
   cmd |-> "nil"]

\* The ShmChild before NewShmChild has run.
NoShmChild ==
  [made |-> FALSE, shmSize |-> 0,
   fdP2CSend |-> 0, fdP2CAck |-> 0, fdP2CShm |-> 0,
   fdC2PSend |-> 0, fdC2PAck |-> 0, fdC2PShm |-> 0,
   shmP2CPtr |-> "nil", shmC2PPtr |-> "nil"]

SenderIdle == [pc |-> "idle", msg |-> <<>>, res |-> "none", rejects |-> 0, ack |-> <<>>]
ReaderIdle == [pc |-> "idle", lenBuf |-> <<>>, data |-> <<>>, res |-> "none"]
ListenOff == [pc |-> "off", lenBuf |-> <<>>, data |-> <<>>, skipped |-> 0, res |-> "none"]

\* The -fd-* flags Start puts on the child's command line.
ChildFlags ==
  [fdP2CSend |-> 3, fdP2CAck |-> 4, fdP2CShm |-> 5,
   fdC2PSend |-> 6, fdC2PAck |-> 7, fdC2PShm |-> 8]

InitCommon ==
  /\ impl \in Impls
  /\ parentProc = "running"
  /\ pstate = "new"
  /\ pfd = [n \in Fds |-> IF n < FirstSlot THEN "stdio" ELSE "closed"]
  /\ P = NewShmParent(ShmSize)
  /\ pmaps = {}
  /\ pfreed = FALSE
  /\ pclose = 0
  /\ childProc = "none"
  /\ cfd = [n \in Fds |-> "closed"]
  /\ C = NoShmChild
  /\ cmaps = {}
  /\ cClosed = 0
  /\ shm = [r \in Regions |-> ZeroRegion(ShmSize)]
  /\ efd = [c \in Counters |-> 0]
  /\ ps = [c \in SenderCtx |-> SenderIdle]
  /\ pr = ReaderIdle
  /\ cl = ListenOff
  /\ cs = [c \in SenderCtx |-> SenderIdle]
  /\ posted = [ch \in Chans |-> <<>>]
  /\ delivered = [ch \in Chans |-> <<>>]
  /\ sentOK = [ch \in Chans |-> <<>>]
  /\ nCalls = 0
  /\ closeLog = <<>>

\* One sender and one receiver per channel.
Init == InitCommon /\ nSenders = 1 /\ flags = ChildFlags

\* ------------------------------------------------------------------------
\* ShmParent.Start / shm_parent_start
\* ------------------------------------------------------------------------

\* The kernel calls of Start in program order.
StartSteps ==
  <<"efdP2CSend", "efdP2CAck", "memfdP2C", "ftruncateP2C", "shmP2CPtr",
    "efdC2PSend", "efdC2PAck", "memfdC2P", "ftruncateC2P", "shmC2PPtr", "cmd">>

\* One call of Start succeeding, on st = [fd, P, maps].
StepOK(st, s) ==
  CASE s \in Objects ->
         LET n == LowestFree(st.fd) IN [st EXCEPT !.fd[n] = s, !.P[s] = n]
    [] s = "shmP2CPtr" ->
         [st EXCEPT !.P.shmP2CPtr = st.fd[st.P.memfdP2C],
                    !.maps = @ \cup {st.fd[st.P.memfdP2C]}]
    [] s = "shmC2PPtr" ->
         [st EXCEPT !.P.shmC2PPtr = st.fd[st.P.memfdC2P],
                    !.maps = @ \cup {st.fd[st.P.memfdC2P]}]
    [] s = "cmd" -> [st EXCEPT !.P.cmd = "proc"]
    [] OTHER -> st

\* One call of Start failing: the field takes the call's error value and
\* Start returns at once, releasing nothing.
StepFail(im, st, s) ==
  CASE s \in Objects -> [st EXCEPT !.P[s] = -1]
    [] s \in {"shmP2CPtr", "shmC2PPtr"} ->
         [st EXCEPT !.P[s] = IF im = "c" THEN "failed" ELSE "nil"]
    [] s = "cmd" -> [st EXCEPT !.P.cmd = IF im = "c" THEN "nil" ELSE "noproc"]
    [] OTHER -> st

RECURSIVE RunStart(_, _, _, _)
RunStart(im, st, i, failAt) ==
  IF i > Len(StartSteps) THEN st
  ELSE IF i = failAt THEN StepFail(im, st, StartSteps[i])
  ELSE RunStart(im, StepOK(st, StartSteps[i]), i + 1, failAt)

\* Mutant of ExtraFiles: the two P2C counters change places.
ExtraFilesSwapped(tbl, f) ==
  <<tbl[f.efdP2CAck], tbl[f.efdP2CSend], tbl[f.memfdP2C],
    tbl[f.efdC2PSend], tbl[f.efdC2PAck], tbl[f.memfdC2P]>>

\* cmd.ExtraFiles in order; the child sees ExtraFiles[i] at descriptor 3+i.
ExtraFiles(tbl, f) ==
  <<tbl[f.efdP2CSend], tbl[f.efdP2CAck], tbl[f.memfdP2C],
    tbl[f.efdC2PSend], tbl[f.efdC2PAck], tbl[f.memfdC2P]>>

Spawn(tbl, f) ==
  [n \in Fds |-> IF n < FirstSlot THEN "stdio" ELSE ExtraFiles(tbl, f)[n - FirstSlot + 1]]

\* The fields shm_parent_start hands to dup2, in program order.
SlotFields ==
  <<"efdP2CSend", "efdP2CAck", "memfdP2C", "efdC2PSend", "efdC2PAck", "memfdC2P">>

\* dup2(old, new) in the forked child: slot new refers to what old refers to.
Dup2(tbl, old, new) == [tbl EXCEPT ![new] = tbl[old]]

\* The forked child inherits the parent's table and runs the six dup2 calls
\* one after the other, from the i-th on.
RECURSIVE CSpawn(_, _, _)
CSpawn(tbl, f, i) ==
  IF i > Len(SlotFields) THEN tbl
  ELSE CSpawn(Dup2(tbl, f[SlotFields[i]], FirstSlot + i - 1), f, i + 1)

\* Start with the call numbered failAt failing (0: none fails).
Start(failAt) ==
  /\ pstate = "new"
  /\ parentProc = "running"
  /\ closeLog = <<>>
  /\ LET st == RunStart(impl, [fd |-> pfd, P |-> P, maps |-> pmaps], 1, failAt) IN
       /\ pfd' = st.fd
       /\ P' = st.P
       /\ pmaps' = st.maps
       /\ IF failAt = 0
            THEN /\ pstate' = "started"
                 /\ childProc' = "running"
                 /\ cfd' = IF impl = "c" THEN CSpawn(st.fd, st.P, 1)
                                          ELSE Spawn(st.fd, st.P)
            ELSE /\ pstate' = "failed"
                 /\ UNCHANGED <<childProc, cfd>>
  /\ UNCHANGED <<config, parentProc, pfreed, pclose, C, cmaps, cClosed, shm, efd, ps, pr,
                 cl, cs, hist, nCalls, closeLog>>

\* ------------------------------------------------------------------------
\* The child: NewShmChild
\* ------------------------------------------------------------------------

ChildLive == childProc \in {"running", "signalled"}

\* NewShmChild(fds..., shmSize) on descriptor table tbl: the fields of the
\* endpoint it returns.
ShmChildOf(fl, tbl) ==
  [made |-> TRUE, shmSize |-> P.shmSize,
   fdP2CSend |-> fl.fdP2CSend, fdP2CAck |-> fl.fdP2CAck,
   fdP2CShm |-> fl.fdP2CShm,
   fdC2PSend |-> fl.fdC2PSend, fdC2PAck |-> fl.fdC2PAck,
   fdC2PShm |-> fl.fdC2PShm,
   shmP2CPtr |-> tbl[fl.fdP2CShm],
   shmC2PPtr |-> tbl[fl.fdC2PShm]]

\* The child started by Start: its flags name the slots themselves, the
\* driver has nothing to remap, and it builds its endpoint.
NewShmChild ==
  /\ ChildLive
  /\ ~C.made
  /\ flags = ChildFlags
  /\ C' = ShmChildOf(flags, cfd)
  /\ cmaps' = {cfd[flags.fdP2CShm], cfd[flags.fdC2PShm]}
  /\ UNCHANGED <<config, parentRes, childProc, cfd, cClosed, shm, efd, ps, pr, cl,
                 cs, hist, nCalls, closeLog>>

\* ---- runChild of the Go demo: the descriptor remapping ----

\* The flags in the order runChild looks at them; the i-th belongs to the
\* object inherited at slot FirstSlot + i - 1.
FlagOrder ==
  <<"fdP2CSend", "fdP2CAck", "fdP2CShm", "fdC2PSend", "fdC2PAck", "fdC2PShm">>

\* Command lines whose six flags name descriptors among the inherited slots.
FlagAssignments == [DOMAIN ChildFlags -> FirstSlot..LastSlot]

\* if *fdP2CSend != 3 { unix.Dup2(3, *fdP2CSend) } ... if *fdC2PShm != 8
\* { unix.Dup2(8, *fdC2PShm) }: the six statements one after the other, from
\* the i-th on.
RECURSIVE RunChildDup2(_, _, _)
RunChildDup2(tbl, fl, i) ==
  IF i > Len(FlagOrder) THEN tbl
  ELSE LET slot == FirstSlot + i - 1
           target == fl[FlagOrder[i]]
       IN RunChildDup2(IF target # slot THEN Dup2(tbl, slot, target) ELSE tbl, fl, i + 1)

\* unix.Mmap succeeds on a memfd; an eventfd cannot be mapped.
Mappable(obj) == obj \in Regions

\* runChild up to the construction of the endpoint: the dup2 statements, then
\* NewShmChild with the flag values; log.Fatalf ends the process when a
\* mapping fails.
runChild ==
  /\ ChildLive
  /\ ~C.made
  /\ LET tbl == RunChildDup2(cfd, flags, 1) IN
       /\ cfd' = tbl
       /\ IF Mappable(tbl[flags.fdP2CShm]) /\ Mappable(tbl[flags.fdC2PShm])
            THEN /\ C' = ShmChildOf(flags, tbl)
                 /\ cmaps' = {tbl[flags.fdP2CShm], tbl[flags.fdC2PShm]}
                 /\ childProc' = childProc
            ELSE /\ childProc' = "zombie"
                 /\ UNCHANGED <<C, cmaps>>
  /\ UNCHANGED <<config, parentRes, cClosed, shm, efd, ps, pr, cl, cs, hist, nCalls,
                 closeLog>>

\* ------------------------------------------------------------------------
\* The hot path: SendData, ReadData, Listen
\* ------------------------------------------------------------------------

\* Mutant of TooLarge: the size check is off by one.
TooLargeOffByOne(data, shmSize) == Len(data) > shmSize + 1

\* len(data) > shmSize: the sender's size check.
TooLarge(data, shmSize) == Len(data) > shmSize

\* The low three bytes of a drained length; the model keeps shmSize below 2^24.
Low24(buf) == buf[1] + 256 * buf[2] + 65536 * buf[3]
HighBytesSet(buf) == \E i \in 4..EfdBytes : buf[i] # 0

\* int(length) > shmSize in Listen and ReadData: length is a uint64, and the
\* conversion to int makes a value with the top bit set negative.
GoExceeds(buf, shmSize) ==
  /\ buf[EfdBytes] < 128
  /\ (HighBytesSet(buf) \/ Low24(buf) > shmSize)

\* len_val > shm_size in the C port: an unsigned comparison.
CExceeds(buf, shmSize) == HighBytesSet(buf) \/ Low24(buf) > shmSize

\* Mutant of Exceeds: the receiver's bound check is off by one and turns
\* away a frame that fills the region exactly.
ExceedsOffByOne(im, buf, shmSize) == HighBytesSet(buf) \/ Low24(buf) >= shmSize

Exceeds(im, buf, shmSize) ==
  IF im = "c" THEN CExceeds(buf, shmSize) ELSE GoExceeds(buf, shmSize)

\* Mutant of Slice: the copy out of the region stops one byte short.
SliceShort(region, buf) == SubSeq(region, 1, Uint64(buf) - 1)

\* shm[:length]
Slice(region, buf) == SubSeq(region, 1, Uint64(buf))

\* make([]byte, length) with a uint64 length: a length that does not fit a
\* signed int makes the Go runtime panic (makeslice: len out of range).  Of
\* the lengths that pass the bound check, those are the ones with the top
\* bit set.  The C port never gets here with such a length.
MakePanics(im, buf) == im = "go" /\ buf[EfdBytes] >= 128

\* The callers use a started endpoint that has not been closed.
ParentUsable ==
  parentProc = "running" /\ pstate = "started" /\ closeLog = <<>>

ParentIdle == pr.pc = "idle" /\ \A c \in SenderCtx : ps[c].pc = "idle"

\* ---- ShmParent.SendData (P2C) ----

\* Entry and size check.
ParentSendDataCheck(c, data) ==
  /\ ParentUsable
  /\ c \in 1..nSenders
  /\ ps[c].pc = "idle"
  /\ nCalls' = nCalls + 1
  /\ ps' = [ps EXCEPT ![c] =
              IF TooLarge(data, P.shmSize)
                THEN [@ EXCEPT !.msg = data, !.res = "tooLarge", !.rejects = @ + 1]
                ELSE [@ EXCEPT !.pc = "copy", !.msg = data, !.res = "none"]]
  /\ UNCHANGED <<config, parentRes, childRes, shm, efd, pr, cl, cs, hist, closeLog>>

\* A call made by a caller that sends any payload, within the call budget.
ParentSendDataCall(c, data) == nCalls < MaxCalls /\ ParentSendDataCheck(c, data)

\* Mutant of ParentSendDataCopy: the copy is put off until after the post.
ParentSendDataCopyDeferred(c) ==
  /\ parentProc = "running"
  /\ ps[c].pc = "copy"
  /\ ps' = [ps EXCEPT ![c].pc = "post"]
  /\ UNCHANGED <<config, parentRes, childRes, shm, efd, pr, cl, cs, hist, nCalls,
                 closeLog>>

\* copy(p.shmP2CPtr, data)
ParentSendDataCopy(c) ==
  /\ parentProc = "running"
  /\ ps[c].pc = "copy"
  /\ shm' = [shm EXCEPT ![P.shmP2CPtr] = GoCopy(@, ps[c].msg)]
  /\ ps' = [ps EXCEPT ![c].pc = "post"]
  /\ UNCHANGED <<config, parentRes, childRes, efd, pr, cl, cs, hist, nCalls, closeLog>>

\* p.fileP2CSend.Write(lenBuf)
ParentSendDataPost(c) ==
  /\ parentProc = "running"
  /\ ps[c].pc = "post"
  /\ efd' = [efd EXCEPT ![pfd[P.efdP2CSend]] =
               EventfdWrite(@, PutUint64(Len(ps[c].msg)))]
  /\ posted' = [posted EXCEPT !.p2c = Append(@, ps[c].msg)]
  /\ ps' = [ps EXCEPT ![c].pc = "ack"]
  /\ UNCHANGED <<config, parentRes, childRes, shm, pr, cl, cs, delivered, sentOK,
                 nCalls, closeLog>>

\* Mutant of ParentSendDataAck: SendData returns without waiting for the ack.
ParentSendDataNoAckWait(c) ==
  /\ parentProc = "running"
  /\ ps[c].pc = "ack"
  /\ ps' = [ps EXCEPT ![c] = [@ EXCEPT !.pc = "idle", !.res = "ok"]]
  /\ sentOK' = [sentOK EXCEPT !.p2c = Append(@, ps[c].msg)]
  /\ UNCHANGED <<config, parentRes, childRes, shm, efd, pr, cl, cs, posted, delivered,
                 nCalls, closeLog>>

\* Mutant of ParentSendDataAck: the ack wait gives up after a while.
ParentSendDataAckTimesOut(c) ==
  /\ parentProc = "running"
  /\ ps[c].pc = "ack"
  /\ ps' = [ps EXCEPT ![c] = [@ EXCEPT !.pc = "idle", !.res = "timeout"]]
  /\ UNCHANGED <<config, parentRes, childRes, shm, efd, pr, cl, cs, hist, nCalls,
                 closeLog>>

\* p.fileP2CAck.Read(ackBuf); return nil
ParentSendDataAck(c) ==
  /\ parentProc = "running"
  /\ ps[c].pc = "ack"
  /\ EventfdReadable(efd[pfd[P.efdP2CAck]])
  /\ ps' = [ps EXCEPT ![c] = [@ EXCEPT !.pc = "idle", !.res = "ok",
                                       !.ack = EventfdRead(efd[pfd[P.efdP2CAck]])]]
  /\ efd' = [efd EXCEPT ![pfd[P.efdP2CAck]] = 0]
  /\ sentOK' = [sentOK EXCEPT !.p2c = Append(@, ps[c].msg)]
  /\ UNCHANGED <<config, parentRes, childRes, shm, pr, cl, cs, posted, delivered,
                 nCalls, closeLog>>

\* ---- ShmParent.ReadData (C2P) ----

ParentReadDataCall ==
  /\ ParentUsable
  /\ pr.pc = "idle"
  /\ pr' = [pr EXCEPT !.pc = "wait", !.res = "none"]
  /\ UNCHANGED <<config, parentRes, childRes, shm, efd, ps, cl, cs, hist, nCalls,
                 closeLog>>

\* length := Uint64(lenBuf); if int(length) > p.shmSize { return nil, err }
ParentReadDataChecked(buf) ==
  IF Exceeds(impl, buf, P.shmSize)
    THEN [pr EXCEPT !.pc = "idle", !.lenBuf = buf, !.res = "err"]
    ELSE [pr EXCEPT !.pc = "copy", !.lenBuf = buf]

\* p.fileC2PSend.Read(lenBuf) and the bound check
ParentReadDataRead ==
  /\ parentProc = "running"
  /\ pr.pc = "wait"
  /\ EventfdReadable(efd[pfd[P.efdC2PSend]])
  /\ pr' = ParentReadDataChecked(EventfdRead(efd[pfd[P.efdC2PSend]]))
  /\ efd' = [efd EXCEPT ![pfd[P.efdC2PSend]] = 0]
  /\ UNCHANGED <<config, parentRes, childRes, shm, ps, cl, cs, hist, nCalls, closeLog>>

\* Mutant of ParentReadDataCopy: the receiver clears the region it has read.
ParentReadDataCopyClears ==
  /\ parentProc = "running"
  /\ pr.pc = "copy"
  /\ pr' = [pr EXCEPT !.pc = "ack", !.data = Slice(shm[P.shmC2PPtr], pr.lenBuf)]
  /\ shm' = [shm EXCEPT ![P.shmC2PPtr] = ZeroRegion(Len(@))]
  /\ UNCHANGED <<config, parentRes, childRes, efd, ps, cl, cs, hist, nCalls,
                 closeLog>>

\* data := make([]byte, length); copy(data, p.shmC2PPtr[:length])
ParentReadDataCopy ==
  /\ parentProc = "running"
  /\ pr.pc = "copy"
  /\ ~MakePanics(impl, pr.lenBuf)
  /\ pr' = [pr EXCEPT !.pc = "ack", !.data = Slice(shm[P.shmC2PPtr], pr.lenBuf)]
  /\ UNCHANGED <<config, parentRes, childRes, shm, efd, ps, cl, cs, hist, nCalls,
                 closeLog>>

\* Mutant of ParentReadDataAck: the ack goes to the other channel's counter.
ParentReadDataAckWrongChannel ==
  /\ parentProc = "running"
  /\ pr.pc = "ack"
  /\ efd' = [efd EXCEPT ![pfd[P.efdP2CAck]] = EventfdWrite(@, PutUint64(AckValue))]
  /\ delivered' = [delivered EXCEPT !.c2p = Append(@, pr.data)]
  /\ pr' = [pr EXCEPT !.pc = "idle", !.res = "ok"]
  /\ UNCHANGED <<config, parentRes, childRes, shm, ps, cl, cs, posted, sentOK, nCalls,
                 closeLog>>

\* p.fileC2PAck.Write(ackBuf); return data, nil
ParentReadDataAck ==
  /\ parentProc = "running"
  /\ pr.pc = "ack"
  /\ efd' = [efd EXCEPT ![pfd[P.efdC2PAck]] = EventfdWrite(@, PutUint64(AckValue))]
  /\ delivered' = [delivered EXCEPT !.c2p = Append(@, pr.data)]
  /\ pr' = [pr EXCEPT !.pc = "idle", !.res = "ok"]
  /\ UNCHANGED <<config, parentRes, childRes, shm, ps, cl, cs, posted, sentOK, nCalls,
                 closeLog>>

\* ---- ShmChild.Listen (P2C) ----

ChildUsable == ChildLive /\ C.made /\ cClosed = 0

ListenCall ==
  /\ ChildUsable
  /\ cl.pc = "off"
  /\ cl' = [cl EXCEPT !.pc = "wait"]
  /\ UNCHANGED <<config, parentRes, childRes, shm, efd, ps, pr, cs, hist, nCalls,
                 closeLog>>

\* Mutant of ListenRead: the ack is posted as soon as the length is drained.
ListenReadAckEarly ==
  /\ ChildLive
  /\ cl.pc = "wait"
  /\ EventfdReadable(efd[cfd[C.fdP2CSend]])
  /\ cl' = [cl EXCEPT !.pc = "handle", !.lenBuf = EventfdRead(efd[cfd[C.fdP2CSend]])]
  /\ efd' = [efd EXCEPT ![cfd[C.fdP2CSend]] = 0,
                        ![cfd[C.fdP2CAck]] = EventfdWrite(@, PutUint64(AckValue))]
  /\ UNCHANGED <<config, parentRes, childRes, shm, ps, pr, cs, hist, nCalls, closeLog>>

\* Mutant of ListenRead: Listen gives up on an oversized length.
ListenReadReturnsOnOversize ==
  /\ ChildLive
  /\ cl.pc = "wait"
  /\ EventfdReadable(efd[cfd[C.fdP2CSend]])
  /\ LET buf == EventfdRead(efd[cfd[C.fdP2CSend]]) IN
       cl' = IF Exceeds(impl, buf, C.shmSize)
               THEN [cl EXCEPT !.pc = "returned", !.lenBuf = buf, !.res = "tooLarge"]
               ELSE [cl EXCEPT !.pc = "handle", !.lenBuf = buf]
  /\ efd' = [efd EXCEPT ![cfd[C.fdP2CSend]] = 0]
  /\ UNCHANGED <<config, parentRes, childRes, shm, ps, pr, cs, hist, nCalls, closeLog>>

\* Mutant of ListenRead: an oversized frame is skipped but acknowledged.
ListenReadAcksOversize ==
  /\ ChildLive
  /\ cl.pc = "wait"
  /\ EventfdReadable(efd[cfd[C.fdP2CSend]])
  /\ LET buf == EventfdRead(efd[cfd[C.fdP2CSend]]) IN
       /\ cl' = IF Exceeds(impl, buf, C.shmSize)
                  THEN [cl EXCEPT !.lenBuf = buf, !.skipped = @ + 1]
                  ELSE [cl EXCEPT !.pc = "handle", !.lenBuf = buf]
       /\ efd' = [efd EXCEPT ![cfd[C.fdP2CSend]] = 0,
                             ![cfd[C.fdP2CAck]] =
                                IF Exceeds(impl, buf, C.shmSize)
                                  THEN EventfdWrite(@, PutUint64(AckValue)) ELSE @]
  /\ UNCHANGED <<config, parentRes, childRes, shm, ps, pr, cs, hist, nCalls, closeLog>>

\* length := Uint64(lenBuf); if int(length) > c.shmSize { log; continue }
ListenChecked(buf) ==
  IF Exceeds(impl, buf, C.shmSize)
    THEN [cl EXCEPT !.lenBuf = buf, !.skipped = @ + 1]
    ELSE [cl EXCEPT !.pc = "handle", !.lenBuf = buf]

\* c.fileP2CSend.Read(lenBuf) and the bound check; an oversized length is
\* logged and the loop continues.
ListenRead ==
  /\ ChildLive
  /\ cl.pc = "wait"
  /\ EventfdReadable(efd[cfd[C.fdP2CSend]])
  /\ cl' = ListenChecked(EventfdRead(efd[cfd[C.fdP2CSend]]))
  /\ efd' = [efd EXCEPT ![cfd[C.fdP2CSend]] = 0]
  /\ UNCHANGED <<config, parentRes, childRes, shm, ps, pr, cs, hist, nCalls, closeLog>>

\* Mutant of ListenHandle: the frame is acknowledged without the handler
\* having run.
ListenHandleNoHandler ==
  /\ ChildLive
  /\ cl.pc = "handle"
  /\ cl' = [cl EXCEPT !.pc = "ack"]
  /\ UNCHANGED <<config, parentRes, childRes, shm, efd, ps, pr, cs, hist, nCalls,
                 closeLog>>

\* data := make([]byte, length); copy(data, c.shmP2CPtr[:length]); handler(data)
ListenHandle ==
  /\ ChildLive
  /\ cl.pc = "handle"
  /\ ~MakePanics(impl, cl.lenBuf)
  /\ LET data == Slice(shm[C.shmP2CPtr], cl.lenBuf) IN
       /\ cl' = [cl EXCEPT !.pc = "ack", !.data = data]
       /\ delivered' = [delivered EXCEPT !.p2c = Append(@, data)]
  /\ UNCHANGED <<config, parentRes, childRes, shm, efd, ps, pr, cs, posted, sentOK,
                 nCalls, closeLog>>

\* Mutant of ListenAck: Listen returns nil after one frame.
ListenAckAndReturn ==
  /\ ChildLive
  /\ cl.pc = "ack"
  /\ efd' = [efd EXCEPT ![cfd[C.fdP2CAck]] = EventfdWrite(@, PutUint64(AckValue))]
  /\ cl' = [cl EXCEPT !.pc = "returned"]
  /\ UNCHANGED <<config, parentRes, childRes, shm, ps, pr, cs, hist, nCalls, closeLog>>

\* c.fileP2CAck.Write(ackBuf)
ListenAck ==
  /\ ChildLive
  /\ cl.pc = "ack"
  /\ efd' = [efd EXCEPT ![cfd[C.fdP2CAck]] = EventfdWrite(@, PutUint64(AckValue))]
  /\ cl' = [cl EXCEPT !.pc = "wait"]
  /\ UNCHANGED <<config, parentRes, childRes, shm, ps, pr, cs, hist, nCalls, closeLog>>

\* ---- ShmChild.SendData (C2P) ----

\* Entry and size check.
ChildSendDataCheck(c, data) ==
  /\ ChildUsable
  /\ c \in 1..nSenders
  /\ cs[c].pc = "idle"
  /\ nCalls' = nCalls + 1
  /\ cs' = [cs EXCEPT ![c] =
              IF TooLarge(data, C.shmSize)
                THEN [@ EXCEPT !.msg = data, !.res = "tooLarge", !.rejects = @ + 1]
                ELSE [@ EXCEPT !.pc = "copy", !.msg = data, !.res = "none"]]
  /\ UNCHANGED <<config, parentRes, childRes, shm, efd, ps, pr, cl, hist, closeLog>>

\* A call made by a caller that sends any payload, within the call budget.
ChildSendDataCall(c, data) == nCalls < MaxCalls /\ ChildSendDataCheck(c, data)

\* copy(c.shmC2PPtr, data)
ChildSendDataCopy(c) ==
  /\ ChildLive
  /\ cs[c].pc = "copy"
  /\ shm' = [shm EXCEPT ![C.shmC2PPtr] = GoCopy(@, cs[c].msg)]
  /\ cs' = [cs EXCEPT ![c].pc = "post"]
  /\ UNCHANGED <<config, parentRes, childRes, efd, ps, pr, cl, hist, nCalls, closeLog>>

\* c.fileC2PSend.Write(lenBuf)
ChildSendDataPost(c) ==
  /\ ChildLive
  /\ cs[c].pc = "post"
  /\ efd' = [efd EXCEPT ![cfd[C.fdC2PSend]] =
               EventfdWrite(@, PutUint64(Len(cs[c].msg)))]
  /\ posted' = [posted EXCEPT !.c2p = Append(@, cs[c].msg)]
  /\ cs' = [cs EXCEPT ![c].pc = "ack"]
  /\ UNCHANGED <<config, parentRes, childRes, shm, ps, pr, cl, delivered, sentOK,
                 nCalls, closeLog>>

\* Mutant of ChildSendDataAck: SendData returns without waiting for the ack.
ChildSendDataNoAckWait(c) ==
  /\ ChildLive
  /\ cs[c].pc = "ack"
  /\ cs' = [cs EXCEPT ![c] = [@ EXCEPT !.pc = "idle", !.res = "ok"]]
  /\ sentOK' = [sentOK EXCEPT !.c2p = Append(@, cs[c].msg)]
  /\ UNCHANGED <<config, parentRes, childRes, shm, efd, ps, pr, cl, posted, delivered,
                 nCalls, closeLog>>

\* c.fileC2PAck.Read(ackBuf); return nil
ChildSendDataAck(c) ==
  /\ ChildLive
  /\ cs[c].pc = "ack"
  /\ EventfdReadable(efd[cfd[C.fdC2PAck]])
  /\ cs' = [cs EXCEPT ![c] = [@ EXCEPT !.pc = "idle", !.res = "ok",
                                       !.ack = EventfdRead(efd[cfd[C.fdC2PAck]])]]
  /\ efd' = [efd EXCEPT ![cfd[C.fdC2PAck]] = 0]
  /\ sentOK' = [sentOK EXCEPT !.c2p = Append(@, cs[c].msg)]
  /\ UNCHANGED <<config, parentRes, childRes, shm, ps, pr, cl, posted, delivered,
                 nCalls, closeLog>>

\* ------------------------------------------------------------------------
\* Teardown
\* ------------------------------------------------------------------------

\* unix.Munmap(b): the mapping goes if b is a live mapping; a slice that was
\* unmapped before is refused (EINVAL) and nothing reaches the kernel.
GoMunmap(ptr, maps) == IF ptr # "nil" /\ ptr \in maps THEN {ptr} ELSE {}

\* if (ptr && ptr != MAP_FAILED) munmap(ptr, size)
CMunmap(ptr, maps) == IF ptr \notin {"nil", "failed"} /\ ptr \in maps THEN {ptr} ELSE {}

\* The entries a Close call logs for the regions it unmapped, P2C first.
MunmapLog(a, b) ==
  (IF a = {} THEN <<>> ELSE <<<<"munmap", CHOOSE r \in a : TRUE>>>>)
    \o (IF b = {} THEN <<>> ELSE <<<<"munmap", CHOOSE r \in b : TRUE>>>>)

\* p.cmd.Process.Kill(): SIGKILL is sent; the process is not waited for.
GoKill(cmd, proc) ==
  IF cmd = "proc" /\ proc = "running" THEN "signalled" ELSE proc

\* ShmParent.Close
ShmParentClose ==
  /\ impl = "go"
  /\ parentProc = "running"
  /\ ParentIdle
  /\ Len(closeLog) < MaxClose
  /\ LET a == GoMunmap(P.shmP2CPtr, pmaps)
         b == GoMunmap(P.shmC2PPtr, pmaps \ a)
     IN /\ pmaps' = (pmaps \ a) \ b
        /\ childProc' = GoKill(P.cmd, childProc)
        /\ closeLog' = Append(closeLog,
             MunmapLog(a, b) \o (IF P.cmd = "proc" THEN <<<<"kill", "child">>>> ELSE <<>>))
  /\ UNCHANGED <<config, parentProc, pstate, pfd, P, pfreed, pclose, cfd, C, cmaps, cClosed,
                 shm, efd, ps, pr, cl, cs, hist, nCalls>>

\* The kernel delivers SIGKILL: the child stops and stays a zombie until its
\* parent waits for it.
ChildKilled ==
  /\ childProc = "signalled"
  /\ childProc' = "zombie"
  /\ UNCHANGED <<config, parentRes, cfd, C, cmaps, cClosed, shm, efd, ps, pr, cl, cs,
                 hist, nCalls, closeLog>>

\* The statements of shm_parent_close in program order: two munmap, six
\* close (named by the field they close), kill, waitpid.
CloseProgram ==
  <<"shm_p2c_ptr", "shm_c2p_ptr",
    "efdP2CSend", "efdP2CAck", "memfdP2C", "efdC2PSend", "efdC2PAck", "memfdC2P",
    "kill", "waitpid">>

\* if (fd != -1) close(fd) on descriptor table tbl: the table afterwards.  A
\* number that names no open descriptor is refused (EBADF).
CCloseFd(tbl, n) ==
  IF n # -1 /\ n \in Fds /\ tbl[n] # "closed" THEN [tbl EXCEPT ![n] = "closed"] ELSE tbl

\* kill(child_pid, SIGTERM): a running child is signalled.
CKill(cmd, proc) == IF cmd = "proc" /\ proc = "running" THEN "signalled" ELSE proc

\* The kernel request the call has just made joins the log of the call.
Logged(req) == [closeLog EXCEPT ![Len(closeLog)] = Append(@, req)]

\* shm_parent_close is entered on a live shm_parent_t.
shm_parent_close ==
  /\ impl = "c"
  /\ parentProc = "running"
  /\ ~pfreed
  /\ pclose = 0
  /\ ParentIdle
  /\ Len(closeLog) < MaxClose
  /\ pclose' = 1
  /\ closeLog' = Append(closeLog, <<>>)
  /\ UNCHANGED <<config, parentProc, pstate, pfd, P, pmaps, pfreed, childRes, shm, efd,
                 ps, pr, cl, cs, hist, nCalls>>

\* One statement of shm_parent_close before the waitpid: a munmap, a close
\* or the kill.  The child keeps running between them.
shm_parent_close_step ==
  /\ parentProc = "running"
  /\ pclose \in 1..(Len(CloseProgram) - 1)
  /\ LET op == CloseProgram[pclose] IN
       \/ /\ op \in {"shm_p2c_ptr", "shm_c2p_ptr"}
          /\ LET a == CMunmap(IF op = "shm_p2c_ptr" THEN P.shmP2CPtr ELSE P.shmC2PPtr,
                              pmaps)
             IN /\ pmaps' = pmaps \ a
                /\ closeLog' = IF a = {} THEN closeLog
                               ELSE Logged(<<"munmap", CHOOSE r \in a : TRUE>>)
          /\ UNCHANGED <<pfd, childProc>>
       \/ /\ op \in Objects
          /\ pfd' = CCloseFd(pfd, P[op])
          /\ closeLog' = IF pfd' = pfd THEN closeLog ELSE Logged(<<"close", pfd[P[op]]>>)
          /\ UNCHANGED <<pmaps, childProc>>
       \/ /\ op = "kill"
          /\ childProc' = CKill(P.cmd, childProc)
          /\ closeLog' = IF P.cmd = "proc" THEN Logged(<<"kill", "child">>) ELSE closeLog
          /\ UNCHANGED <<pfd, pmaps>>
  /\ pclose' = pclose + 1
  /\ UNCHANGED <<config, parentProc, pstate, P, pfreed, cfd, C, cmaps, cClosed, shm,
                 efd, ps, pr, cl, cs, hist, nCalls>>

\* waitpid(child_pid, NULL, 0) returns once the child is dead and reaps it;
\* then free(p) and the call returns.
shm_parent_close_waitpid ==
  /\ parentProc = "running"
  /\ pclose = Len(CloseProgram)
  /\ IF P.cmd = "proc"
       THEN /\ childProc = "zombie"
            /\ childProc' = "reaped"
            /\ closeLog' = Logged(<<"waitpid", "child">>)
       ELSE UNCHANGED <<childProc, closeLog>>
  /\ pfreed' = TRUE
  /\ pclose' = 0
  /\ UNCHANGED <<config, parentProc, pstate, pfd, P, pmaps, cfd, C, cmaps, cClosed,
                 shm, efd, ps, pr, cl, cs, hist, nCalls>>

\* shm_parent_close on a shm_parent_t that was freed: every field read is a
\* read of freed memory and the final free is a double free.  The outcomes
\* kept here: the allocator aborts the process, or the call goes unnoticed.
shm_parent_close_freed ==
  /\ impl = "c"
  /\ parentProc = "running"
  /\ pfreed
  /\ Len(closeLog) < MaxClose
  /\ parentProc' \in {"running", "crashed"}
  /\ closeLog' = Append(closeLog, <<<<"use-after-free", "p">>>>)
  /\ UNCHANGED <<config, pstate, pfd, P, pmaps, pfreed, pclose, childRes, shm, efd, ps, pr, cl,
                 cs, hist, nCalls>>

\* ShmChild.Close; shm_child_close on a live shm_child_t (it ends with free(c)).
ShmChildClose ==
  /\ ChildLive
  /\ C.made
  /\ impl = "go" \/ cClosed = 0
  /\ cl.pc \in {"off", "returned"}
  /\ \A c \in SenderCtx : cs[c].pc = "idle"
  /\ cClosed < MaxClose
  /\ cmaps' = (cmaps \ GoMunmap(C.shmP2CPtr, cmaps)) \ GoMunmap(C.shmC2PPtr, cmaps)
  /\ cClosed' = cClosed + 1
  /\ UNCHANGED <<config, parentRes, childProc, cfd, C, shm, efd, ps, pr, cl, cs, hist,
                 nCalls, closeLog>>

\* shm_child_close on a shm_child_t that was freed: the reads are reads of
\* freed memory and the final free is a double free.  The outcomes kept
\* here: the allocator aborts the child, or the call goes unnoticed.
shm_child_close_freed ==
  /\ impl = "c"
  /\ ChildLive
  /\ C.made
  /\ cl.pc = "off"
  /\ \A c \in SenderCtx : cs[c].pc = "idle"
  /\ cClosed >= 1
  /\ cClosed < MaxClose
  /\ cClosed' = cClosed + 1
  /\ childProc' \in {childProc, "zombie"}
  /\ UNCHANGED <<config, parentRes, cfd, C, cmaps, shm, efd, ps, pr, cl, cs, hist,
                 nCalls, closeLog>>

\* ------------------------------------------------------------------------
\* Specification
\* ------------------------------------------------------------------------
Next ==
  \/ \E failAt \in 0..Len(StartSteps) : Start(failAt)
  \/ NewShmChild
  \/ \E c \in SenderCtx, data \in ParentPayloads : ParentSendDataCall(c, data)
  \/ \E c \in SenderCtx : ParentSendDataCopy(c)
  \/ \E c \in SenderCtx : ParentSendDataPost(c)
  \/ \E c \in SenderCtx : ParentSendDataAck(c)
  \/ ParentReadDataCall
  \/ ParentReadDataRead
  \/ ParentReadDataCopy
  \/ ParentReadDataAck
  \/ ListenCall
  \/ ListenRead
  \/ ListenHandle
  \/ ListenAck
  \/ \E c \in SenderCtx, data \in ChildPayloads : ChildSendDataCall(c, data)
  \/ \E c \in SenderCtx : ChildSendDataCopy(c)
  \/ \E c \in SenderCtx : ChildSendDataPost(c)
  \/ \E c \in SenderCtx : ChildSendDataAck(c)
  \/ ShmParentClose
  \/ ChildKilled
  \/ shm_parent_close
  \/ shm_parent_close_step
  \/ shm_parent_close_waitpid
  \/ shm_parent_close_freed
  \/ ShmChildClose
  \/ shm_child_close_freed

Spec == Init /\ [][Next]_vars

\* The steps of each execution context once it is inside a call.
ParentSenderSteps ==
  \E c \in SenderCtx :
    ParentSendDataCopy(c) \/ ParentSendDataPost(c) \/ ParentSendDataAck(c)
ParentReaderSteps ==
  ParentReadDataCall \/ ParentReadDataRead \/ ParentReadDataCopy \/ ParentReadDataAck
ListenSteps == ListenCall \/ ListenRead \/ ListenHandle \/ ListenAck
ChildSenderSteps ==
  \E c \in SenderCtx :
    ChildSendDataCopy(c) \/ ChildSendDataPost(c) \/ ChildSendDataAck(c)

\* Both processes live and neither endpoint is closed: Start succeeds, the
\* child builds its endpoint and runs Listen, the parent keeps calling
\* ReadData, and the callers send.
NextLive ==
  \/ Start(0)
  \/ NewShmChild
  \/ \E c \in SenderCtx, data \in ParentPayloads : ParentSendDataCall(c, data)
  \/ ParentSenderSteps
  \/ ParentReaderSteps
  \/ ListenSteps
  \/ \E c \in SenderCtx, data \in ChildPayloads : ChildSendDataCall(c, data)
  \/ ChildSenderSteps

\* Every context that can take a step is scheduled; the receivers run their
\* role.  The callers are not obliged to send.
LiveSpec ==
  /\ Init
  /\ [][NextLive]_vars
  /\ WF_vars(NewShmChild)
  /\ WF_vars(ParentSenderSteps)
  /\ WF_vars(ParentReaderSteps)
  /\ WF_vars(ListenSteps)
  /\ WF_vars(ChildSenderSteps)

\* ------------------------------------------------------------------------
\* Callers that break the single-sender rule
\* ------------------------------------------------------------------------

\* The callers let two contexts into SendData on each endpoint; the library
\* has no lock to keep the second one out.
InitRace == InitCommon /\ nSenders = 2 /\ flags = ChildFlags

\* The payloads the racing callers send: one byte, or the whole region.
RacePayloads(side) == {Pattern(side, L) : L \in {1, ShmSize}}

NextRace ==
  \/ Start(0)
  \/ NewShmChild
  \/ \E c \in SenderCtx, data \in RacePayloads(1) : ParentSendDataCall(c, data)
  \/ ParentSenderSteps
  \/ ParentReaderSteps
  \/ ListenSteps
  \/ \E c \in SenderCtx, data \in RacePayloads(2) : ChildSendDataCall(c, data)
  \/ ChildSenderSteps

RaceSpec == InitRace /\ [][NextRace]_vars

\* ------------------------------------------------------------------------
\* Kernel calls that fail, and a child that exits
\* ------------------------------------------------------------------------

\* The child process ends on its own (its main returns, or it is killed from
\* outside).  Its descriptors are closed by the kernel; the counters and
\* regions live on, because the parent holds them open.  Nothing waits for
\* the child.
ChildExit ==
  /\ childProc = "running"
  /\ childProc' = "zombie"
  /\ UNCHANGED <<config, parentRes, cfd, C, cmaps, cClosed, shm, efd, ps, pr, cl, cs,
                 hist, nCalls, closeLog>>

\* c.fileP2CSend.Read(lenBuf) fails: return err
ListenReadErr ==
  /\ ChildLive
  /\ cl.pc = "wait"
  /\ cl' = [cl EXCEPT !.pc = "returned", !.res = "readErr"]
  /\ UNCHANGED <<config, parentRes, childRes, shm, efd, ps, pr, cs, hist, nCalls,
                 closeLog>>

\* c.fileP2CAck.Write(ackBuf) fails: return err
ListenAckErr ==
  /\ ChildLive
  /\ cl.pc = "ack"
  /\ cl' = [cl EXCEPT !.pc = "returned", !.res = "writeErr"]
  /\ UNCHANGED <<config, parentRes, childRes, shm, efd, ps, pr, cs, hist, nCalls,
                 closeLog>>

\* The live system, with the parent's Close, the death of the child and
\* failing counter transfers in Listen.
NextFault ==
  \/ NextLive
  \/ ShmParentClose
  \/ shm_parent_close
  \/ shm_parent_close_step
  \/ shm_parent_close_waitpid
  \/ ChildKilled
  \/ ChildExit
  \/ ListenReadErr
  \/ ListenAckErr

\* Every context that can take a step is scheduled and a pending signal is
\* delivered; no kernel call is obliged to fail and no process to die.
FaultSpec ==
  /\ Init
  /\ [][NextFault]_vars
  /\ WF_vars(NewShmChild)
  /\ WF_vars(ParentSenderSteps)
  /\ WF_vars(ParentReaderSteps)
  /\ WF_vars(ListenSteps)
  /\ WF_vars(ChildSenderSteps)
  /\ WF_vars(ChildKilled)
  /\ WF_vars(shm_parent_close_step \/ shm_parent_close_waitpid)

\* ------------------------------------------------------------------------
\* Failing counter transfers
\* ------------------------------------------------------------------------

\* p.fileP2CSend.Write(lenBuf) fails: return err
ParentSendDataPostErr(c) ==
  /\ parentProc = "running"
  /\ ps[c].pc = "post"
  /\ ps' = [ps EXCEPT ![c] = [@ EXCEPT !.pc = "idle", !.res = "writeErr"]]
  /\ UNCHANGED <<config, parentRes, childRes, shm, efd, pr, cl, cs, hist, nCalls, closeLog>>

\* p.fileP2CAck.Read(ackBuf) fails: return err
ParentSendDataAckErr(c) ==
  /\ parentProc = "running"
  /\ ps[c].pc = "ack"
  /\ ps' = [ps EXCEPT ![c] = [@ EXCEPT !.pc = "idle", !.res = "readErr"]]
  /\ UNCHANGED <<config, parentRes, childRes, shm, efd, pr, cl, cs, hist, nCalls, closeLog>>

\* p.fileC2PSend.Read(lenBuf) fails: return nil, err
ParentReadDataReadErr ==
  /\ parentProc = "running"
  /\ pr.pc = "wait"
  /\ pr' = [pr EXCEPT !.pc = "idle", !.res = "readErr"]
  /\ UNCHANGED <<config, parentRes, childRes, shm, efd, ps, cl, cs, hist, nCalls, closeLog>>

\* Mutant of ParentReadDataAckErr: the data is handed over although the ack
\* could not be posted.
ParentReadDataAckErrReturnsData ==
  /\ parentProc = "running"
  /\ pr.pc = "ack"
  /\ pr' = [pr EXCEPT !.pc = "idle", !.res = "writeErr"]
  /\ delivered' = [delivered EXCEPT !.c2p = Append(@, pr.data)]
  /\ UNCHANGED <<config, parentRes, childRes, shm, efd, ps, cl, cs, posted, sentOK,
                 nCalls, closeLog>>

\* p.fileC2PAck.Write(ackBuf) fails: return nil, err
ParentReadDataAckErr ==
  /\ parentProc = "running"
  /\ pr.pc = "ack"
  /\ pr' = [pr EXCEPT !.pc = "idle", !.res = "writeErr"]
  /\ UNCHANGED <<config, parentRes, childRes, shm, efd, ps, cl, cs, hist, nCalls, closeLog>>

\* c.fileC2PSend.Write(lenBuf) fails: return err
ChildSendDataPostErr(c) ==
  /\ ChildLive
  /\ cs[c].pc = "post"
  /\ cs' = [cs EXCEPT ![c] = [@ EXCEPT !.pc = "idle", !.res = "writeErr"]]
  /\ UNCHANGED <<config, parentRes, childRes, shm, efd, ps, pr, cl, hist, nCalls, closeLog>>

\* c.fileC2PAck.Read(ackBuf) fails: return err
ChildSendDataAckErr(c) ==
  /\ ChildLive
  /\ cs[c].pc = "ack"
  /\ cs' = [cs EXCEPT ![c] = [@ EXCEPT !.pc = "idle", !.res = "readErr"]]
  /\ UNCHANGED <<config, parentRes, childRes, shm, efd, ps, pr, cl, hist, nCalls, closeLog>>

\* The live system in which any counter transfer of the hot path may fail;
\* the callers send payloads that fill the region.
NextErr ==
  \/ Start(0)
  \/ NewShmChild
  \/ \E c \in SenderCtx : ParentSendDataCall(c, Pattern(1, ShmSize))
  \/ ParentSenderSteps
  \/ ParentReaderSteps
  \/ ListenSteps
  \/ \E c \in SenderCtx : ChildSendDataCall(c, Pattern(2, ShmSize))
  \/ ChildSenderSteps
  \/ \E c \in SenderCtx : ParentSendDataPostErr(c)
  \/ \E c \in SenderCtx : ParentSendDataAckErr(c)
  \/ ParentReadDataReadErr
  \/ ParentReadDataAckErr
  \/ ListenReadErr
  \/ ListenAckErr
  \/ \E c \in SenderCtx : ChildSendDataPostErr(c)
  \/ \E c \in SenderCtx : ChildSendDataAckErr(c)

ErrSpec == Init /\ [][NextErr]_vars

\* ------------------------------------------------------------------------
\* Lengths over the whole 64-bit range
\* ------------------------------------------------------------------------

\* Values a read of a send counter can return when the counter was raised
\* through the peer's descriptor by something other than one SendData: 1,
\* shmSize, shmSize + 1, 2^24, 2^63 - 1, 2^63 and 2^64 - 2 (the largest
\* value an eventfd holds), as the 8 bytes the read stores in lenBuf.
DrainValues ==
  { PutUint64(1), PutUint64(ShmSize), PutUint64(ShmSize + 1),
    <<0, 0, 0, 1, 0, 0, 0, 0>>,
    <<255, 255, 255, 255, 255, 255, 255, 127>>,
    <<0, 0, 0, 0, 0, 0, 0, 128>>,
    <<254, 255, 255, 255, 255, 255, 255, 255>> }

\* c.fileP2CSend.Read(lenBuf) returns buf, and the bound check
ListenReadValue(buf) ==
  /\ ChildLive
  /\ cl.pc = "wait"
  /\ nCalls < MaxCalls
  /\ efd[cfd[C.fdP2CSend]] = 0
  /\ cl' = ListenChecked(buf)
  /\ nCalls' = nCalls + 1
  /\ UNCHANGED <<config, parentRes, childRes, shm, efd, ps, pr, cs, hist, closeLog>>

\* p.fileC2PSend.Read(lenBuf) returns buf, and the bound check
ParentReadDataReadValue(buf) ==
  /\ parentProc = "running"
  /\ pr.pc = "wait"
  /\ nCalls < MaxCalls
  /\ efd[pfd[P.efdC2PSend]] = 0
  /\ pr' = ParentReadDataChecked(buf)
  /\ nCalls' = nCalls + 1
  /\ UNCHANGED <<config, parentRes, childRes, shm, efd, ps, cl, cs, hist, closeLog>>

\* data := make([]byte, length) panics in Listen: the child process dies.
ListenMakePanics ==
  /\ ChildLive
  /\ cl.pc = "handle"
  /\ MakePanics(impl, cl.lenBuf)
  /\ cl' = [cl EXCEPT !.pc = "returned", !.res = "panic"]
  /\ childProc' = "zombie"
  /\ UNCHANGED <<config, parentRes, cfd, C, cmaps, cClosed, shm, efd, ps, pr, cs,
                 hist, nCalls, closeLog>>

\* data := make([]byte, length) panics in ReadData: the parent process dies.
ParentReadDataMakePanics ==
  /\ parentProc = "running"
  /\ pr.pc = "copy"
  /\ MakePanics(impl, pr.lenBuf)
  /\ pr' = [pr EXCEPT !.pc = "idle", !.res = "panic"]
  /\ parentProc' = "crashed"
  /\ UNCHANGED <<config, pstate, pfd, P, pmaps, pfreed, pclose, childRes, shm, efd, ps, cl,
                 cs, hist, nCalls, closeLog>>

\* The two receivers fed with lengths from the whole range.
NextDrain ==
  \/ Start(0)
  \/ NewShmChild
  \/ ListenCall
  \/ \E buf \in DrainValues : ListenReadValue(buf)
  \/ ListenHandle
  \/ ListenMakePanics
  \/ ListenAck
  \/ ParentReadDataCall
  \/ \E buf \in DrainValues : ParentReadDataReadValue(buf)
  \/ ParentReadDataCopy
  \/ ParentReadDataMakePanics
  \/ ParentReadDataAck

DrainSpec == Init /\ [][NextDrain]_vars

\* ------------------------------------------------------------------------
\* The Go child driver under any command line
\* ------------------------------------------------------------------------

\* The six objects are handed over at slots 3..8 as Start does it, but the
\* command line of the child is any of FlagAssignments.
InitDriver == InitCommon /\ nSenders = 1 /\ flags \in FlagAssignments

NextDriver ==
  \/ Start(0)
  \/ runChild

DriverSpec == InitDriver /\ [][NextDriver]_vars

\* ------------------------------------------------------------------------
\* The demo drivers: runParent and runChild
\* ------------------------------------------------------------------------

\* for i := 0; i < 5; i++
Rounds == 5

\* The message of round i: a tag for the side and the round number, in place
\* of "Hello from Go Parent %d" / "Hello from Go Child %d".
DemoMsg(side, i) == <<side, i>>
DemoSeq(side) == [k \in 1..Rounds |-> DemoMsg(side, k - 1)]

\* Rounds the parent has finished: each ends with a ReadData that returned.
RoundsDone == Len(delivered.c2p)

\* runParent, Send half of round i: parent.SendData([]byte(msg))
DemoParentSend ==
  /\ ParentIdle
  /\ RoundsDone < Rounds
  /\ Len(sentOK.p2c) = RoundsDone
  /\ ParentSendDataCheck(1, DemoMsg(1, RoundsDone))

\* runParent, Receive half of round i: parent.ReadData()
DemoParentRead ==
  /\ ParentIdle
  /\ Len(sentOK.p2c) = RoundsDone + 1
  /\ ParentReadDataCall

\* runParent returns after the last round: defer parent.Close()
DemoParentClose ==
  /\ RoundsDone = Rounds
  /\ \/ closeLog = <<>> /\ (ShmParentClose \/ shm_parent_close)
     \/ shm_parent_close_step
     \/ shm_parent_close_waitpid

\* runChild: the sending goroutine, for i := 0; i < 5; i++ child.SendData
DemoChildSend ==
  /\ Len(sentOK.c2p) < Rounds
  /\ ChildSendDataCheck(1, DemoMsg(2, Len(sentOK.c2p)))

\* The execution contexts of the demo.
DemoParentLoop ==
  \/ DemoParentSend
  \/ ParentSenderSteps
  \/ DemoParentRead
  \/ ParentReadDataRead \/ ParentReadDataCopy \/ ParentReadDataAck
  \/ DemoParentClose
DemoParent == Start(0) \/ DemoParentLoop
DemoChildMain == NewShmChild \/ ListenSteps
DemoChildSender == DemoChildSend \/ ChildSenderSteps

NextDemo == DemoParent \/ DemoChildMain \/ DemoChildSender \/ ChildKilled

\* Once the child is spawned, each of the three contexts runs whenever it
\* can.
DemoSpec ==
  /\ Init
  /\ [][NextDemo]_vars
  /\ WF_vars(DemoParentLoop)
  /\ WF_vars(DemoChildMain)
  /\ WF_vars(DemoChildSender)

\* ------------------------------------------------------------------------
\* The earlier single-channel library: one region and two counters, the
\* parent sends and the child listens
\* ------------------------------------------------------------------------

CountersV1 == {"efdSend", "efdAck"}
RegionsV1 == {"memfd"}

\* NewShmParent(childPath, fdSend, fdAck, fdShm, shmSize) as the driver calls
\* it: NewShmParent(*childPath, 3, 4, 5, *shmSize).
NewShmParentV1(shmSize) ==
  [fdSend |-> 3, fdAck |-> 4, fdShm |-> 5, shmSize |-> shmSize,
   efdSend |-> 0, efdAck |-> 0, memfd |-> 0, shmPtr |-> "nil",
   cmd |-> "nil", files |-> "nil"]

\* The flags Start puts on the child's command line: p.fdSend, p.fdAck,
\* p.fdShm.
ChildFlagsV1 == [fdSend |-> 3, fdAck |-> 4, fdShm |-> 5]

NoShmChildV1 ==
  [made |-> FALSE, fdSend |-> 0, fdAck |-> 0, fdShm |-> 0, shmSize |-> 0,
   shmPtr |-> "nil"]

InitV1 ==
  /\ impl = "go"
  /\ nSenders = 1
  /\ flags = ChildFlagsV1
  /\ parentProc = "running"
  /\ pstate = "new"
  /\ pfd = [n \in Fds |-> IF n < FirstSlot THEN "stdio" ELSE "closed"]
  /\ P = NewShmParentV1(ShmSize)
  /\ pmaps = {}
  /\ pfreed = FALSE
  /\ pclose = 0
  /\ childProc = "none"
  /\ cfd = [n \in Fds |-> "closed"]
  /\ C = NoShmChildV1
  /\ cmaps = {}
  /\ cClosed = 0
  /\ shm = [r \in RegionsV1 |-> ZeroRegion(ShmSize)]
  /\ efd = [c \in CountersV1 |-> 0]
  /\ ps = [c \in SenderCtx |-> SenderIdle]
  /\ pr = ReaderIdle
  /\ cl = ListenOff
  /\ cs = [c \in SenderCtx |-> SenderIdle]
  /\ posted = [ch \in Chans |-> <<>>]
  /\ delivered = [ch \in Chans |-> <<>>]
  /\ sentOK = [ch \in Chans |-> <<>>]
  /\ nCalls = 0
  /\ closeLog = <<>>

\* ---- ShmParent.Start ----

\* The calls of Start that can fail, in program order.
StartStepsV1 == <<"efdSend", "efdAck", "memfd", "ftruncate", "shmPtr", "cmd">>

\* One call of Start succeeding; st = [fd, P, maps].
StepOKV1(st, s) ==
  CASE s \in {"efdSend", "efdAck", "memfd"} ->
         LET n == LowestFree(st.fd) IN [st EXCEPT !.fd[n] = s, !.P[s] = n]
    [] s = "shmPtr" ->
         [st EXCEPT !.P.shmPtr = st.fd[st.P.memfd],
                    !.maps = @ \cup {st.fd[st.P.memfd]}]
    [] s = "cmd" -> [st EXCEPT !.P.cmd = "proc", !.P.files = "open"]
    [] OTHER -> st

\* The fields whose descriptors Start closes when call s fails: those it
\* opened before, except when it is cmd.Start that fails.
ClosedOnFailV1(s) ==
  CASE s = "efdAck" -> {"efdSend"}
    [] s = "memfd" -> {"efdSend", "efdAck"}
    [] s \in {"ftruncate", "shmPtr"} -> {"efdSend", "efdAck", "memfd"}
    [] OTHER -> {}

\* One call of Start failing: the field takes the call's error value, the
\* descriptors opened before are closed, and Start returns.
StepFailV1(st, s) ==
  LET shut == [n \in Fds |->
                 IF \E f \in ClosedOnFailV1(s) : st.P[f] = n THEN "closed" ELSE st.fd[n]]
  IN CASE s \in {"efdSend", "efdAck", "memfd"} -> [st EXCEPT !.fd = shut, !.P[s] = -1]
       [] s = "cmd" -> [st EXCEPT !.P.cmd = "noproc", !.P.files = "open"]
       [] OTHER -> [st EXCEPT !.fd = shut]

RECURSIVE RunStartV1(_, _, _)
RunStartV1(st, i, failAt) ==
  IF i > Len(StartStepsV1) THEN st
  ELSE IF i = failAt THEN StepFailV1(st, StartStepsV1[i])
  ELSE RunStartV1(StepOKV1(st, StartStepsV1[i]), i + 1, failAt)

\* p.cmd.ExtraFiles = []*os.File{p.fileSend, p.fileAck, p.fileShm}: the
\* child sees them at 3, 4, 5.
SpawnV1(tbl, f) ==
  [n \in Fds |->
     IF n < FirstSlot THEN "stdio"
     ELSE IF n = FirstSlot THEN tbl[f.efdSend]
     ELSE IF n = FirstSlot + 1 THEN tbl[f.efdAck]
     ELSE IF n = FirstSlot + 2 THEN tbl[f.memfd]
     ELSE "closed"]

\* Start with the call numbered failAt failing (0: none fails).
StartV1(failAt) ==
  /\ pstate = "new"
  /\ parentProc = "running"
  /\ closeLog = <<>>
  /\ LET st == RunStartV1([fd |-> pfd, P |-> P, maps |-> pmaps], 1, failAt) IN
       /\ pfd' = st.fd
       /\ P' = st.P
       /\ pmaps' = st.maps
       /\ IF failAt = 0
            THEN /\ pstate' = "started"
                 /\ childProc' = "running"
                 /\ cfd' = SpawnV1(st.fd, st.P)
            ELSE /\ pstate' = "failed"
                 /\ UNCHANGED <<childProc, cfd>>
  /\ UNCHANGED <<config, parentProc, pfreed, pclose, C, cmaps, cClosed, shm, efd, ps,
                 pr, cl, cs, hist, nCalls, closeLog>>

\* ---- ShmParent.SendData ----

SendDataV1Call(data) ==
  /\ ParentUsable
  /\ ps[1].pc = "idle"
  /\ nCalls < MaxCalls
  /\ nCalls' = nCalls + 1
  /\ ps' = [ps EXCEPT ![1] =
              IF TooLarge(data, P.shmSize)
                THEN [@ EXCEPT !.msg = data, !.res = "tooLarge", !.rejects = @ + 1]
                ELSE [@ EXCEPT !.pc = "copy", !.msg = data, !.res = "none"]]
  /\ UNCHANGED <<config, parentRes, childRes, shm, efd, pr, cl, cs, hist, closeLog>>

\* copy(p.shmPtr, data)
SendDataV1Copy ==
  /\ parentProc = "running"
  /\ ps[1].pc = "copy"
  /\ shm' = [shm EXCEPT ![P.shmPtr] = GoCopy(@, ps[1].msg)]
  /\ ps' = [ps EXCEPT ![1].pc = "post"]
  /\ UNCHANGED <<config, parentRes, childRes, efd, pr, cl, cs, hist, nCalls, closeLog>>

\* binary.NativeEndian.PutUint64(buf, uint64(len(data))); unix.Write(p.efdSend, buf)
\* (the byte order of the host, which is little-endian where eventfd exists
\* for this build)
SendDataV1Post ==
  /\ parentProc = "running"
  /\ ps[1].pc = "post"
  /\ efd' = [efd EXCEPT ![pfd[P.efdSend]] = EventfdWrite(@, PutUint64(Len(ps[1].msg)))]
  /\ posted' = [posted EXCEPT !.p2c = Append(@, ps[1].msg)]
  /\ ps' = [ps EXCEPT ![1].pc = "ack"]
  /\ UNCHANGED <<config, parentRes, childRes, shm, pr, cl, cs, delivered, sentOK,
                 nCalls, closeLog>>

\* unix.Write(p.efdSend, buf) fails: return the write error; nothing was
\* posted and the payload stays in the region.
SendDataV1PostErr ==
  /\ parentProc = "running"
  /\ ps[1].pc = "post"
  /\ ps' = [ps EXCEPT ![1] = [@ EXCEPT !.pc = "idle", !.res = "writeErr"]]
  /\ UNCHANGED <<config, parentRes, childRes, shm, efd, pr, cl, cs, hist, nCalls,
                 closeLog>>

\* unix.Read(p.efdAck, buf) fails: return the read error; the length stays
\* posted and no ack was taken.
SendDataV1AckErr ==
  /\ parentProc = "running"
  /\ ps[1].pc = "ack"
  /\ ps' = [ps EXCEPT ![1] = [@ EXCEPT !.pc = "idle", !.res = "readErr"]]
  /\ UNCHANGED <<config, parentRes, childRes, shm, efd, pr, cl, cs, hist, nCalls,
                 closeLog>>

\* unix.Read(p.efdAck, buf); return nil
SendDataV1Ack ==
  /\ parentProc = "running"
  /\ ps[1].pc = "ack"
  /\ EventfdReadable(efd[pfd[P.efdAck]])
  /\ ps' = [ps EXCEPT ![1] = [@ EXCEPT !.pc = "idle", !.res = "ok",
                                       !.ack = EventfdRead(efd[pfd[P.efdAck]])]]
  /\ efd' = [efd EXCEPT ![pfd[P.efdAck]] = 0]
  /\ sentOK' = [sentOK EXCEPT !.p2c = Append(@, ps[1].msg)]
  /\ UNCHANGED <<config, parentRes, childRes, shm, pr, cl, cs, posted, delivered,
                 nCalls, closeLog>>

\* ---- ShmParent.Close ----

\* p.fileSend.Close(); p.fileAck.Close(); p.fileShm.Close(): an *os.File
\* closes its descriptor once; closing it again returns an error and
\* touches nothing.
FileCloseV1(tbl, f) ==
  [n \in Fds |->
     IF f.files = "open" /\ n \in {f.efdSend, f.efdAck, f.memfd} THEN "closed" ELSE tbl[n]]

\* The close requests of one Close call, in program order.
FileCloseLogV1(tbl, f) ==
  IF f.files = "open"
    THEN <<<<"close", tbl[f.efdSend]>>, <<"close", tbl[f.efdAck]>>,
           <<"close", tbl[f.memfd]>>>>
    ELSE <<>>

\* Close: kill the child, unmap the region, close the three files.
CloseV1 ==
  /\ parentProc = "running"
  /\ ps[1].pc = "idle"
  /\ Len(closeLog) < MaxClose
  /\ LET a == GoMunmap(P.shmPtr, pmaps) IN
       /\ childProc' = GoKill(P.cmd, childProc)
       /\ pmaps' = pmaps \ a
       /\ pfd' = FileCloseV1(pfd, P)
       /\ P' = [P EXCEPT !.files = IF @ = "open" THEN "closed" ELSE @]
       /\ closeLog' = Append(closeLog,
            (IF P.cmd = "proc" THEN <<<<"kill", "child">>>> ELSE <<>>)
              \o MunmapLog(a, {}) \o FileCloseLogV1(pfd, P))
  /\ UNCHANGED <<config, parentProc, pstate, pfreed, pclose, cfd, C, cmaps, cClosed,
                 shm, efd, ps, pr, cl, cs, hist, nCalls>>

\* ---- NewShmChild and ShmChild.Listen ----

\* NewShmChild stores its arguments and maps nothing.
NewShmChildV1 ==
  /\ ChildLive
  /\ ~C.made
  /\ C' = [made |-> TRUE, fdSend |-> flags.fdSend, fdAck |-> flags.fdAck,
           fdShm |-> flags.fdShm, shmSize |-> P.shmSize, shmPtr |-> "nil"]
  /\ UNCHANGED <<config, parentRes, childProc, cfd, cmaps, cClosed, shm, efd, ps, pr,
                 cl, cs, hist, nCalls, closeLog>>

\* Listen is entered: c.shmPtr = unix.Mmap(c.fdShm, ..., PROT_READ, ...); on
\* an error Listen returns it, otherwise defer unix.Munmap(c.shmPtr).
ListenV1Call ==
  /\ ChildLive
  /\ C.made
  /\ cl.pc \in {"off", "returned"}
  /\ IF cfd[C.fdShm] \in RegionsV1
       THEN /\ C' = [C EXCEPT !.shmPtr = cfd[C.fdShm]]
            /\ cmaps' = cmaps \cup {cfd[C.fdShm]}
            /\ cl' = [cl EXCEPT !.pc = "wait", !.res = "none"]
       ELSE /\ cl' = [cl EXCEPT !.pc = "returned", !.res = "mmapErr"]
            /\ UNCHANGED <<C, cmaps>>
  /\ UNCHANGED <<config, parentRes, childProc, cfd, cClosed, shm, efd, ps, pr, cs,
                 hist, nCalls, closeLog>>

\* unix.Read(c.fdSend, buf); if int(length) > c.shmSize { log; continue }
ListenV1Read ==
  /\ ChildLive
  /\ cl.pc = "wait"
  /\ EventfdReadable(efd[cfd[C.fdSend]])
  /\ cl' = ListenChecked(EventfdRead(efd[cfd[C.fdSend]]))
  /\ efd' = [efd EXCEPT ![cfd[C.fdSend]] = 0]
  /\ UNCHANGED <<config, parentRes, childRes, shm, ps, pr, cs, hist, nCalls, closeLog>>

\* data := c.shmPtr[:length]; handler(data): the handler is given the mapped
\* region itself, not a copy; cl.data names the region and the length, and
\* delivered records the bytes the region held when the handler was called.
ListenV1Handle ==
  /\ ChildLive
  /\ cl.pc = "handle"
  /\ cl' = [cl EXCEPT !.pc = "ack",
                      !.data = [ptr |-> C.shmPtr, len |-> Uint64(cl.lenBuf)]]
  /\ delivered' = [delivered EXCEPT !.p2c = Append(@, Slice(shm[C.shmPtr], cl.lenBuf))]
  /\ UNCHANGED <<config, parentRes, childRes, shm, efd, ps, pr, cs, posted, sentOK,
                 nCalls, closeLog>>

\* native.PutUint64(buf, 1); unix.Write(c.fdAck, buf)
ListenV1Ack ==
  /\ ChildLive
  /\ cl.pc = "ack"
  /\ efd' = [efd EXCEPT ![cfd[C.fdAck]] = EventfdWrite(@, PutUint64(AckValue))]
  /\ cl' = [cl EXCEPT !.pc = "wait"]
  /\ UNCHANGED <<config, parentRes, childRes, shm, ps, pr, cs, hist, nCalls, closeLog>>

\* unix.Read fails: Listen returns the error and the deferred Munmap runs.
ListenV1ReadErr ==
  /\ ChildLive
  /\ cl.pc = "wait"
  /\ cl' = [cl EXCEPT !.pc = "returned", !.res = "readErr"]
  /\ cmaps' = cmaps \ {C.shmPtr}
  /\ UNCHANGED <<config, parentRes, childProc, cfd, C, cClosed, shm, efd, ps, pr, cs,
                 hist, nCalls, closeLog>>

\* unix.Write fails: Listen returns the error and the deferred Munmap runs.
ListenV1AckErr ==
  /\ ChildLive
  /\ cl.pc = "ack"
  /\ cl' = [cl EXCEPT !.pc = "returned", !.res = "writeErr"]
  /\ cmaps' = cmaps \ {C.shmPtr}
  /\ UNCHANGED <<config, parentRes, childProc, cfd, C, cClosed, shm, efd, ps, pr, cs,
                 hist, nCalls, closeLog>>

NextV1 ==
  \/ \E failAt \in 0..Len(StartStepsV1) : StartV1(failAt)
  \/ \E data \in ParentPayloads : SendDataV1Call(data)
  \/ SendDataV1Copy
  \/ SendDataV1Post
  \/ SendDataV1PostErr
  \/ SendDataV1Ack
  \/ SendDataV1AckErr
  \/ CloseV1
  \/ ChildKilled
  \/ NewShmChildV1
  \/ ListenV1Call
  \/ ListenV1Read
  \/ ListenV1Handle
  \/ ListenV1Ack
  \/ ListenV1ReadErr
  \/ ListenV1AckErr

SpecV1 == InitV1 /\ [][NextV1]_vars

\* ------------------------------------------------------------------------
\* Properties
\* ------------------------------------------------------------------------
IsPrefix(a, b) == Len(a) <= Len(b) /\ SubSeq(b, 1, Len(a)) = a

\* Channel ch with sender s: every payload whose SendData returned nil has
\* been received once, with its bytes; the only other receive is that of the
\* payload whose sender is still waiting for the ack.
ExactlyOnce(ch, s) ==
  \/ delivered[ch] = sentOK[ch]
  \/ s.pc = "ack" /\ delivered[ch] = Append(sentOK[ch], s.msg)

\* C1: with one sender and one receiver per channel, every SendData(m) that
\* returned success is matched by exactly one receive (a handler invocation
\* on P2C, a ReadData return on C2P) whose bytes and length are those of m:
\* nothing is delivered twice, dropped, or delivered at another length.
C1_ExactlyOnceDelivery ==
  ExactlyOnce("p2c", ps[1]) /\ ExactlyOnce("c2p", cs[1])

\* Both channels have completed a send, P2C two of them.
C1_Witness ==
  /\ Len(sentOK.p2c) = 2
  /\ Len(sentOK.c2p) = 1
  /\ delivered = sentOK

\* C2: per channel the receiver observes the payloads in the order the
\* sender announced them, however the two channels' sends interleave: what
\* has been received is always an initial part of what has been sent.
C2_FifoPerChannel ==
  \A ch \in Chans : IsPrefix(delivered[ch], posted[ch])

\* Two different payloads were received, in order, on P2C while C2P also
\* carried one.
C2_Witness ==
  /\ Len(delivered.p2c) = 2
  /\ delivered.p2c[1] # delivered.p2c[2]
  /\ Len(delivered.c2p) = 1

InCall(s) == s.pc \in {"copy", "post", "ack"}
ReturnedOK(s) == s.pc = "idle" /\ s.res = "ok"

\* C3 as claimed: every SendData of a payload of length 0..shmSize
\* eventually returns success while the peer runs its receiver and both
\* processes live.
C3_SendSucceeds_AnyLength ==
  /\ InCall(ps[1]) ~> ReturnedOK(ps[1])
  /\ InCall(cs[1]) ~> ReturnedOK(cs[1])

\* C3 amended: every SendData of a payload of length 1..shmSize (shmSize
\* itself included) eventually returns success while the peer runs its
\* receiver and both processes live.
C3_SendSucceeds_NonEmpty ==
  /\ (InCall(ps[1]) /\ Len(ps[1].msg) >= 1) ~> ReturnedOK(ps[1])
  /\ (InCall(cs[1]) /\ Len(cs[1].msg) >= 1) ~> ReturnedOK(cs[1])

\* Both senders have returned success for a payload that fills the region.
C3_Witness ==
  /\ ReturnedOK(ps[1]) /\ Len(ps[1].msg) = ShmSize
  /\ ReturnedOK(cs[1]) /\ Len(cs[1].msg) = ShmSize

\* A SendData call made in this step by sender s (s before, t after) with a
\* payload longer than shmSize.
OversizeCall(s, t) == s.pc = "idle" /\ t # s /\ Len(t.msg) > ShmSize

\* What such a call may change: it has returned an error within the step
\* and only the caller-visible result differs.
RejectedAtOnce(s, t) ==
  /\ t.pc = "idle"
  /\ t.res = "tooLarge"
  /\ t.ack = s.ack

\* C4: SendData with a payload longer than shmSize returns an error at once
\* and leaves the channels as they were: no byte of a region changes, no
\* counter is posted to and no counter is drained.
C4_OversizeLeavesChannel ==
  [][/\ \A c \in SenderCtx :
          OversizeCall(ps[c], ps'[c]) =>
            (RejectedAtOnce(ps[c], ps'[c]) /\ shm' = shm /\ efd' = efd /\ posted' = posted)
     /\ \A c \in SenderCtx :
          OversizeCall(cs[c], cs'[c]) =>
            (RejectedAtOnce(cs[c], cs'[c]) /\ shm' = shm /\ efd' = efd /\ posted' = posted)
    ]_vars

\* Either endpoint has turned away a payload of shmSize + 1 bytes while a
\* frame of the other direction was in flight.
C4_Witness ==
  \/ ps[1].res = "tooLarge" /\ Len(ps[1].msg) = ShmSize + 1 /\ efd.efdC2PSend > 0
  \/ cs[1].res = "tooLarge" /\ Len(cs[1].msg) = ShmSize + 1 /\ efd.efdP2CSend > 0

\* The payload of s was delivered as the latest receive on ch, intact.
DeliveredIntact(ch, s) ==
  /\ ReturnedOK(s)
  /\ delivered[ch] = sentOK[ch]
  /\ Len(delivered[ch]) >= 1
  /\ delivered[ch][Len(delivered[ch])] = s.msg

\* C5 as claimed: after a SendData was refused for its size, a later
\* SendData of any payload that fits returns success and is delivered intact.
C5_RecoversAfterReject_AnyLength ==
  /\ (ps[1].rejects >= 1 /\ InCall(ps[1])) ~> DeliveredIntact("p2c", ps[1])
  /\ (cs[1].rejects >= 1 /\ InCall(cs[1])) ~> DeliveredIntact("c2p", cs[1])

\* C5 amended: after a SendData was refused for its size, a later SendData
\* of a payload of 1..shmSize bytes on the same endpoint returns success and
\* the receiver is handed exactly that payload.
C5_RecoversAfterReject_NonEmpty ==
  /\ (ps[1].rejects >= 1 /\ InCall(ps[1]) /\ Len(ps[1].msg) >= 1)
       ~> DeliveredIntact("p2c", ps[1])
  /\ (cs[1].rejects >= 1 /\ InCall(cs[1]) /\ Len(cs[1].msg) >= 1)
       ~> DeliveredIntact("c2p", cs[1])

\* The parent's latest call succeeded and was delivered after an earlier call
\* of the same sender had been refused.
C5_Witness ==
  /\ ps[1].rejects >= 1
  /\ DeliveredIntact("p2c", ps[1])

\* C6: once a send has returned success and the receiver has finished with
\* the frame (Listen is back at its wait, ReadData has returned), the channel
\* is idle: its send counter and its ack counter are both zero.
C6_IdleAfterPair ==
  /\ (ReturnedOK(ps[1]) /\ cl.pc = "wait")
       => (efd.efdP2CSend = 0 /\ efd.efdP2CAck = 0)
  /\ (ReturnedOK(cs[1]) /\ pr.pc \in {"idle", "wait"})
       => (efd.efdC2PSend = 0 /\ efd.efdC2PAck = 0)

\* A second pair has completed on P2C after the first, and one on C2P.
C6_Witness ==
  /\ Len(sentOK.p2c) = 2 /\ ReturnedOK(ps[1]) /\ cl.pc = "wait"
  /\ Len(sentOK.c2p) = 1 /\ ReturnedOK(cs[1]) /\ pr.pc = "idle"

\* At most one frame in flight on the channel with sender s.
OneInFlight(sendCtr, ackCtr, s) ==
  /\ efd[sendCtr] = 0 \/ (s.pc = "ack" /\ efd[sendCtr] = Len(s.msg))
  /\ efd[ackCtr] \in {0, 1}
  /\ s.ack \in {<<>>, PutUint64(1)}

\* C7: with one sender and one receiver per channel, the send counter holds
\* 0 or the length of the one payload announced and not yet drained, the ack
\* counter holds 0 or 1, and every value a sender drains from the ack
\* counter is 1.
C7_OneInFlight ==
  /\ OneInFlight("efdP2CSend", "efdP2CAck", ps[1])
  /\ OneInFlight("efdC2PSend", "efdC2PAck", cs[1])

\* The parent has drained an ack while a child frame is announced.
C7_Witness ==
  /\ ps[1].ack = PutUint64(1)
  /\ efd.efdC2PSend = ShmSize
  /\ efd.efdP2CAck = 0

\* A Close call of the parent made in this step that is not the first.
SecondParentClose == Len(closeLog) >= 1 /\ Len(closeLog') = Len(closeLog) + 1
SecondChildClose == cClosed >= 1 /\ cClosed' = cClosed + 1

\* C8: Close is idempotent on both endpoints: a second Close leaves the
\* endpoint, the kernel objects and the child process as the first left
\* them, and makes no kernel request that releases or signals anything.
C8_CloseIdempotent ==
  [][/\ SecondParentClose =>
          /\ UNCHANGED <<parentProc, pfd, P, pmaps, pfreed, pclose, childProc, shm, efd>>
          /\ closeLog'[Len(closeLog')] = <<>>
     /\ SecondChildClose => UNCHANGED <<childProc, cfd, C, cmaps, shm, efd>>
    ]_vars

\* Close has been called twice on a started parent endpoint.
C8_Witness == pstate = "started" /\ Len(closeLog) = 2

ClosedAfterStart == pstate = "started" /\ Len(closeLog) >= 1 /\ pclose = 0

\* C9: after the parent's Close has returned on a started endpoint, both
\* regions are unmapped and none of the six objects is open in the parent.
C9_CloseReleasesAll ==
  ClosedAfterStart => (pmaps = {} /\ \A n \in Fds : pfd[n] \notin Objects)

\* Close has returned on an endpoint that Start had fully set up.
C9_Witness == ClosedAfterStart /\ P.shmP2CPtr = "memfdP2C" /\ P.memfdC2P = LastSlot

Signalled(log) == \E i \in 1..Len(log) : log[i] = <<"kill", "child">>

\* C10: after the parent's Close has returned on a started endpoint whose
\* child was alive, the child has been signalled and reaped: it is not
\* running and not a zombie.
C10_ChildReaped ==
  ClosedAfterStart => (Signalled(closeLog[1]) /\ childProc = "reaped")

\* Close has returned and the signalled child has stopped.
C10_Witness == ClosedAfterStart /\ childProc \in {"zombie", "reaped"}

\* ------------------------------------------------------------------------
\* Order and completeness of release
\* ------------------------------------------------------------------------

\* The kernel requests of one Close call, by kind.
IsReq(entry, kind) == Len(entry) >= 1 /\ entry[1] = kind

\* No handle is closed before a mapping goes; nothing is closed or unmapped
\* after the signal.
ReleaseOrdered(log) ==
  \A i, j \in 1..Len(log) :
    i < j => /\ ~(IsReq(log[i], "close") /\ IsReq(log[j], "munmap"))
             /\ ~(IsReq(log[i], "kill") /\ (IsReq(log[j], "close") \/ IsReq(log[j], "munmap")))

\* When the signal is sent, each of the six objects has been closed.
ClosedBeforeSignal(log) ==
  \A j \in 1..Len(log) :
    IsReq(log[j], "kill") =>
      \A o \in Objects : \E i \in 1..(j - 1) : log[i] = <<"close", o>>

\* When the first handle is closed, both regions have been unmapped.
UnmappedBeforeClose(log) ==
  \A j \in 1..Len(log) :
    IsReq(log[j], "close") =>
      \A r \in Regions : \E i \in 1..(j - 1) : log[i] = <<"munmap", r>>

\* C11: in the parent's Close on a started endpoint, every mapping is
\* unmapped before any handle is closed and every handle is closed before
\* the child is signalled.
C11_CloseOrder ==
  ClosedAfterStart =>
    /\ ReleaseOrdered(closeLog[1])
    /\ UnmappedBeforeClose(closeLog[1])
    /\ ClosedBeforeSignal(closeLog[1])

\* A Close that unmapped a region and signalled the child.
C11_Witness ==
  /\ ClosedAfterStart
  /\ Signalled(closeLog[1])
  /\ \E i \in 1..Len(closeLog[1]) : IsReq(closeLog[1][i], "munmap")

NothingHeld == pmaps = {} /\ \A n \in Fds : pfd[n] \notin Objects

\* C12: when Start has returned an error, every kernel object and mapping
\* the earlier steps of that Start acquired has been released.
C12_FailedStartReleases == (pstate = "failed" /\ closeLog = <<>>) => NothingHeld

\* Start failed after its first step had created a counter.
C12_Witness == pstate = "failed" /\ closeLog = <<>> /\ P.efdP2CSend = FirstSlot

\* C13: Close after a failed Start completes without fault, releases all
\* that Start had acquired, and closes, unmaps or signals nothing else: the
\* descriptors the endpoint never owned stay open and no process is
\* signalled.
C13_CloseAfterFailedStart ==
  (pstate = "failed" /\ Len(closeLog) = 1 /\ pclose = 0) =>
    /\ parentProc = "running"
    /\ NothingHeld
    /\ \A n \in 0..(FirstSlot - 1) : pfd[n] = "stdio"
    /\ ~Signalled(closeLog[1])
    /\ childProc = "none"

\* Close has returned on an endpoint whose Start failed part-way.
C13_Witness ==
  pstate = "failed" /\ Len(closeLog) = 1 /\ pclose = 0 /\ P.efdP2CSend = FirstSlot

\* ------------------------------------------------------------------------
\* A peer that goes away
\* ------------------------------------------------------------------------

ChildGone == childProc \in {"zombie", "reaped"}

\* The parent is blocked in the ack wait of SendData, or in the send-counter
\* wait of ReadData, and the child is gone.
SendBlockedChildGone ==
  ChildGone /\ ps[1].pc = "ack" /\ efd[pfd[P.efdP2CAck]] = 0
ReadBlockedChildGone ==
  ChildGone /\ pr.pc = "wait" /\ efd[pfd[P.efdC2PSend]] = 0

\* C14: when the child exits while the parent is blocked in a counter wait,
\* the blocked call returns a transport error.
C14_ChildExitUnblocksParent ==
  /\ SendBlockedChildGone ~> (ps[1].pc = "idle" /\ ps[1].res = "err")
  /\ ReadBlockedChildGone ~> (pr.pc = "idle" /\ pr.res = "err")

\* The child has exited and the parent sits in the ack wait of SendData.
C14_Witness == SendBlockedChildGone /\ closeLog = <<>>

\* The parent has called Close and the child's Listen is waiting on the P2C
\* send counter.
ListenBlockedAtClose ==
  /\ ClosedAfterStart
  /\ cl.pc = "wait"
  /\ efd[cfd[C.fdP2CSend]] = 0

\* C15: when the parent calls Close while the child is blocked in Listen,
\* the child's Listen returns a transport error to its caller.
C15_CloseUnblocksListen ==
  ListenBlockedAtClose ~> (cl.pc = "returned" /\ cl.res # "none")

\* Close has been called on a parent whose child waits in Listen.
C15_Witness == ListenBlockedAtClose /\ Len(closeLog) = 1

\* C18: Listen returns only out of a failed read of the P2C send counter or
\* a failed write of the P2C ack counter, and then with a non-nil error.
C18_ListenReturnsOnlyOnError ==
  [][(cl'.pc = "returned" /\ cl.pc # "returned") =>
       \/ cl.pc = "wait" /\ cl'.res = "readErr"
       \/ cl.pc = "ack" /\ cl'.res = "writeErr"]_vars

\* Listen has returned out of a failed ack write after delivering a frame.
C18_Witness == cl.pc = "returned" /\ cl.res = "writeErr" /\ Len(delivered.p2c) >= 1

\* ------------------------------------------------------------------------
\* Wiring of the six slots
\* ------------------------------------------------------------------------

\* C16: after a successful Start the child's slots 3..8 hold the P2C send
\* counter, P2C ack counter, P2C region, C2P send counter, C2P ack counter
\* and C2P region, and a child endpoint built from them uses for each role
\* the object the parent uses for that role.
C16_SlotWiring ==
  /\ pstate = "started" =>
       [i \in 1..6 |-> cfd[FirstSlot + i - 1]] =
         <<"efdP2CSend", "efdP2CAck", "memfdP2C", "efdC2PSend", "efdC2PAck", "memfdC2P">>
  /\ (pstate = "started" /\ C.made /\ closeLog = <<>>) =>
       /\ cfd[C.fdP2CSend] = pfd[P.efdP2CSend]
       /\ cfd[C.fdP2CAck] = pfd[P.efdP2CAck]
       /\ cfd[C.fdC2PSend] = pfd[P.efdC2PSend]
       /\ cfd[C.fdC2PAck] = pfd[P.efdC2PAck]
       /\ C.shmP2CPtr = P.shmP2CPtr /\ cfd[C.fdP2CShm] = pfd[P.memfdP2C]
       /\ C.shmC2PPtr = P.shmC2PPtr /\ cfd[C.fdC2PShm] = pfd[P.memfdC2P]
       /\ cClosed = 0 => cmaps = pmaps

\* The child endpoint has been built from the slots of a started parent.
C16_Witness == pstate = "started" /\ C.made /\ closeLog = <<>> /\ cmaps = Regions

\* ------------------------------------------------------------------------
\* The demo
\* ------------------------------------------------------------------------

DemoAllDelivered == delivered.p2c = DemoSeq(1) /\ delivered.c2p = DemoSeq(2)

\* C17: in the demo, once Start has succeeded, under every interleaving the
\* parent completes its five rounds, the child's handler sees the parent's
\* five messages in order and the parent's five ReadData calls return the
\* child's five messages in the order they were sent.
C17_DemoCompletes ==
  /\ (pstate = "started") ~>
       (RoundsDone = Rounds /\ Len(sentOK.p2c) = Rounds /\ DemoAllDelivered)
  /\ [](IsPrefix(delivered.p2c, DemoSeq(1)) /\ IsPrefix(delivered.c2p, DemoSeq(2)))

\* The fifth round is over: all ten messages have arrived.
C17_Witness == RoundsDone = Rounds /\ DemoAllDelivered /\ ParentIdle

\* ------------------------------------------------------------------------
\* The region while a frame is in flight
\* ------------------------------------------------------------------------

\* The sender of a channel has posted the length and waits for the ack.
P2CPosted == \E c \in SenderCtx : ps[c].pc = "ack"
C2PPosted == \E c \in SenderCtx : cs[c].pc = "ack"

\* The receiver of a channel has drained the length and not yet posted the ack.
P2CConsuming == cl.pc \in {"handle", "ack"}
C2PConsuming == pr.pc \in {"copy", "ack"}

\* C19: with one sender per channel, the region of a channel is not written
\* from the post of the length until the sender's ack wait returns, nor
\* between the receiver's drain of the send counter and its post of the ack.
C19_RegionStableInFlight ==
  [][/\ (P2CPosted \/ P2CConsuming) => shm'["memfdP2C"] = shm["memfdP2C"]
     /\ (C2PPosted \/ C2PConsuming) => shm'["memfdC2P"] = shm["memfdC2P"]]_vars

\* The child's handler holds a frame of a region that an earlier message
\* had already filled.
C19_Witness ==
  P2CPosted /\ cl.pc = "handle" /\ Len(sentOK.p2c) >= 1 /\ Len(cl.lenBuf) = EfdBytes

\* The send counter of a channel holds the length of the message of the
\* sender that waits for the ack, and the region starts with that message.
PostedFrameInRegion(counter, region, s) ==
  efd[counter] # 0 =>
    \E c \in SenderCtx :
      /\ s[c].pc = "ack"
      /\ efd[counter] = Len(s[c].msg)
      /\ SubSeq(shm[region], 1, Len(s[c].msg)) = s[c].msg

\* C20: whenever the send counter of a channel holds a nonzero length L
\* posted by SendData(m), the first L bytes of the channel's region are m.
C20_CopyBeforePost ==
  /\ PostedFrameInRegion("efdP2CSend", "memfdP2C", ps)
  /\ PostedFrameInRegion("efdC2PSend", "memfdC2P", cs)

\* A full-size frame is announced on the P2C send counter and not yet drained.
C20_Witness == efd["efdP2CSend"] = ShmSize /\ P2CPosted

\* ------------------------------------------------------------------------
\* Acknowledgement
\* ------------------------------------------------------------------------

Last(q) == q[Len(q)]

\* C21: a receiver posts the ack only after it has consumed the frame: in
\* Listen the handler has returned on the frame, in ReadData the payload has
\* been copied out of the region into the buffer that is returned.
C21_AckAfterConsume ==
  [][/\ efd'["efdP2CAck"] > efd["efdP2CAck"] =>
          /\ cl.pc = "ack"
          /\ Len(cl.data) = Uint64(cl.lenBuf)
          /\ delivered.p2c # <<>> /\ Last(delivered.p2c) = cl.data
          /\ cl.data = Slice(shm["memfdP2C"], cl.lenBuf)
     /\ efd'["efdC2PAck"] > efd["efdC2PAck"] =>
          /\ pr.pc = "ack"
          /\ Len(pr.data) = Uint64(pr.lenBuf)
          /\ pr.data = Slice(shm["memfdC2P"], pr.lenBuf)
    ]_vars

\* Both receivers have posted an ack that is not yet drained.
C21_Witness ==
  /\ efd["efdP2CAck"] = AckValue /\ delivered.p2c # <<>>
  /\ efd["efdC2PAck"] = AckValue /\ delivered.c2p # <<>>

\* The sender s leaves its ack wait in this step.
LeavesAckWait(s, t) == s.pc = "ack" /\ t.pc # "ack"

\* C22: SendData leaves its ack wait only by draining an ack the peer has
\* posted, and then returns success; by then the receiver has consumed that
\* message.
C22_ReturnOnlyAfterAck ==
  [][\A c \in SenderCtx :
       /\ LeavesAckWait(ps[c], ps'[c]) =>
            /\ efd["efdP2CAck"] >= AckValue /\ efd'["efdP2CAck"] = 0
            /\ ps'[c].res = "ok"
            /\ delivered.p2c # <<>> /\ Last(delivered.p2c) = ps[c].msg
       /\ LeavesAckWait(cs[c], cs'[c]) =>
            /\ efd["efdC2PAck"] >= AckValue /\ efd'["efdC2PAck"] = 0
            /\ cs'[c].res = "ok"
            /\ delivered.c2p # <<>> /\ Last(delivered.c2p) = cs[c].msg
    ]_vars

\* A SendData of each endpoint has returned success.
C22_Witness == sentOK.p2c # <<>> /\ sentOK.c2p # <<>>

\* ------------------------------------------------------------------------
\* Oversized frames and racing senders
\* ------------------------------------------------------------------------

\* The receiver drains, in this step, a length above its shmSize.
DrainsOversize(counter, size) == efd[counter] > size /\ efd'[counter] = 0

\* C23: a receiver that drains a length above shmSize does not read the
\* region, does not invoke the handler or return data and posts no ack;
\* Listen goes back to waiting and ReadData returns an error.
C23_OversizeSkipped ==
  [][/\ (cl.pc = "wait" /\ DrainsOversize("efdP2CSend", C.shmSize)) =>
          /\ cl'.pc = "wait" /\ cl'.skipped = cl.skipped + 1
          /\ cl'.data = cl.data
          /\ delivered' = delivered
          /\ efd'["efdP2CAck"] = efd["efdP2CAck"]
     /\ (pr.pc = "wait" /\ DrainsOversize("efdC2PSend", P.shmSize)) =>
          /\ pr'.pc = "idle" /\ pr'.res = "err"
          /\ pr'.data = pr.data
          /\ delivered' = delivered
          /\ efd'["efdC2PAck"] = efd["efdC2PAck"]
    ]_vars

\* Listen has skipped a frame whose length was the sum of two posts.
C23_Witness ==
  /\ cl.skipped = 1 /\ cl.pc = "wait"
  /\ Uint64(cl.lenBuf) = Len(ps[1].msg) + Len(ps[2].msg)

\* The last length the receiver drained was oversized: it skipped the frame.
SkippedLast(buf, size) == Len(buf) = EfdBytes /\ Exceeds(impl, buf, size)

\* The channel is stuck: both counters are zero and a sender waits for an ack.
Deadlocked(sendCtr, ackCtr, s) ==
  /\ efd[sendCtr] = 0 /\ efd[ackCtr] = 0
  /\ \E c \in SenderCtx : s[c].pc = "ack"

StaysBlocked(s, t) == \A c \in SenderCtx : s[c].pc = "ack" => t[c].pc = "ack"

\* C24: once a receiver has skipped an oversized frame, the channel is
\* deadlocked: the senders in the ack wait are never released, both counters
\* stay at zero, and the receiver waits (Listen) or would wait (ReadData) on
\* the send counter.
C24_DeadlockAfterSkip ==
  /\ [](SkippedLast(cl.lenBuf, ShmSize) =>
          cl.pc = "wait" /\ Deadlocked("efdP2CSend", "efdP2CAck", ps))
  /\ [](SkippedLast(pr.lenBuf, ShmSize) =>
          pr.pc \in {"idle", "wait"} /\ Deadlocked("efdC2PSend", "efdC2PAck", cs))
  /\ [][/\ SkippedLast(cl.lenBuf, ShmSize) => StaysBlocked(ps, ps')
        /\ SkippedLast(pr.lenBuf, ShmSize) => StaysBlocked(cs, cs')]_vars

\* ReadData has returned an error for an oversized frame and both child
\* senders sit in their ack wait.
C24_Witness ==
  /\ SkippedLast(pr.lenBuf, ShmSize) /\ pr.res = "err"
  /\ \A c \in SenderCtx : cs[c].pc = "ack"

\* Nothing is under way on P2C: the receiver waits, both counters are zero
\* and no sender is between its size check and its post.
P2CQuiet ==
  /\ cl.pc = "wait"
  /\ efd["efdP2CSend"] = 0 /\ efd["efdP2CAck"] = 0
  /\ \A c \in SenderCtx : ps[c].pc \in {"idle", "ack"}

\* The handler was given a byte sequence that no caller sent.
ForeignDelivered ==
  \E i \in 1..Len(delivered.p2c) :
    \A j \in 1..Len(posted.p2c) : delivered.p2c[i] # posted.p2c[j]

\* C30: with two contexts in SendData the lengths of two posts can add up in
\* the send counter and be drained as one frame with one ack; whenever fewer
\* frames than posts have been consumed, a sender is left in its ack wait
\* with nothing to wake it, or the handler was given bytes nobody sent.
C30_RaceLosesAck ==
  (P2CQuiet /\ Len(delivered.p2c) + cl.skipped < Len(posted.p2c)) =>
    ((\E c \in SenderCtx : ps[c].pc = "ack") \/ ForeignDelivered)

\* Two posts of one byte were drained as one frame of two bytes: the handler
\* got bytes nobody sent, one ack was posted, one sender returned and the
\* other is still waiting.
C30_Witness ==
  /\ P2CQuiet
  /\ Len(posted.p2c) = 2 /\ Len(delivered.p2c) = 1
  /\ Len(delivered.p2c[1]) = Len(posted.p2c[1]) + Len(posted.p2c[2])
  /\ ForeignDelivered
  /\ \E c, d \in SenderCtx : ps[c].pc = "ack" /\ ps[d].pc = "idle" /\ ps[d].res = "ok"

\* ------------------------------------------------------------------------
\* Empty payloads
\* ------------------------------------------------------------------------

\* Sender context c of s has posted an empty payload and waits for its ack.
EmptyInFlight(s) == \E c \in SenderCtx : s[c].pc = "ack" /\ s[c].msg = <<>>

\* C25: a send with an empty payload posts the value 0, which leaves the
\* send counter unchanged; the receiver is not woken for it, nothing is
\* delivered for it, and the sender stays in its ack wait.
C25_EmptyPayloadBlocks ==
  /\ [](EmptyInFlight(ps) =>
          efd["efdP2CSend"] = 0 /\ cl.pc \in {"off", "wait", "returned"})
  /\ [](EmptyInFlight(cs) =>
          efd["efdC2PSend"] = 0 /\ pr.pc \in {"idle", "wait"})
  /\ [](\A i \in 1..Len(delivered.p2c) : delivered.p2c[i] # <<>>)
  /\ [](\A i \in 1..Len(delivered.c2p) : delivered.c2p[i] # <<>>)
  /\ [][/\ \A c \in SenderCtx :
             /\ (ps[c].pc = "post" /\ ps[c].msg = <<>> /\ ps'[c].pc = "ack") => efd' = efd
             /\ (cs[c].pc = "post" /\ cs[c].msg = <<>> /\ cs'[c].pc = "ack") => efd' = efd
             /\ (ps[c].pc = "ack" /\ ps[c].msg = <<>>) => ps'[c] = ps[c]
             /\ (cs[c].pc = "ack" /\ cs[c].msg = <<>>) => cs'[c] = cs[c]]_vars

\* The parent has posted an empty payload while Listen waits; the child has
\* posted one while ReadData waits.
C25_Witness ==
  /\ ps[1].pc = "ack" /\ ps[1].msg = <<>> /\ cl.pc = "wait"
  /\ cs[1].pc = "ack" /\ cs[1].msg = <<>> /\ pr.pc = "wait"
  /\ <<>> = Last(posted.p2c) /\ <<>> = Last(posted.c2p)

\* ------------------------------------------------------------------------
\* Direction of the regions
\* ------------------------------------------------------------------------

\* Sender context c of s performs its copy into the region in this step.
SenderCopies(s, t) == \E c \in SenderCtx : s[c].pc = "copy" /\ t[c].pc = "post"

\* C26: each region is written only by the sender of its direction: the P2C
\* region changes only in a parent SendData copy, the C2P region only in a
\* child SendData copy; receivers, Start and the close operations never
\* change a region's contents.
C26_RegionWriters ==
  [][/\ shm'["memfdP2C"] # shm["memfdP2C"] => SenderCopies(ps, ps')
     /\ shm'["memfdC2P"] # shm["memfdC2P"] => SenderCopies(cs, cs')]_vars

\* Both regions carry a payload that their receiver has consumed.
C26_Witness ==
  /\ shm["memfdP2C"] # ZeroRegion(ShmSize) /\ Len(delivered.p2c) >= 1
  /\ shm["memfdC2P"] # ZeroRegion(ShmSize) /\ Len(delivered.c2p) >= 1

\* ------------------------------------------------------------------------
\* Independence of the two channels
\* ------------------------------------------------------------------------

\* Everything that belongs to one channel: its region, its two counters, its
\* sender, its receiver and its history.
P2CState ==
  <<shm["memfdP2C"], efd["efdP2CSend"], efd["efdP2CAck"], ps, cl,
    posted.p2c, delivered.p2c, sentOK.p2c>>
C2PState ==
  <<shm["memfdC2P"], efd["efdC2PSend"], efd["efdC2PAck"], cs, pr,
    posted.c2p, delivered.c2p, sentOK.c2p>>

\* Sender s waits for an ack that will never come (it posted the value 0).
StuckSender(s) == s.pc = "ack" /\ s.msg = <<>>

\* C27: the two channels are independent.  A step of one channel's sender or
\* receiver leaves the other channel's region, counters, roles and history
\* untouched; delivery is preserved on both channels under every
\* interleaving; and a send on one channel completes while the sender of the
\* other channel stays blocked in its ack wait.
C27_ChannelsIndependent ==
  /\ [][/\ (ps' # ps \/ cl' # cl) => UNCHANGED C2PState
        /\ (cs' # cs \/ pr' # pr) => UNCHANGED P2CState]_vars
  /\ [](IsPrefix(delivered.p2c, posted.p2c) /\ IsPrefix(delivered.c2p, posted.c2p))
  /\ (StuckSender(ps[1]) /\ InCall(cs[1]) /\ Len(cs[1].msg) >= 1)
       ~> (StuckSender(ps[1]) /\ ReturnedOK(cs[1]))
  /\ (StuckSender(cs[1]) /\ InCall(ps[1]) /\ Len(ps[1].msg) >= 1)
       ~> (StuckSender(cs[1]) /\ ReturnedOK(ps[1]))

\* The child's send was delivered and returned while its Listen waits and
\* the parent's sender is blocked on P2C.
C27_Witness ==
  /\ StuckSender(ps[1]) /\ cl.pc = "wait"
  /\ ReturnedOK(cs[1]) /\ Len(cs[1].msg) >= 1
  /\ Len(delivered.c2p) >= 1 /\ Last(delivered.c2p) = cs[1].msg

\* ------------------------------------------------------------------------
\* Failed counter transfers
\* ------------------------------------------------------------------------

IsErr(res) == res \in {"readErr", "writeErr"}

\* Role s (before) / t (after) returns the error of a failed transfer in
\* this step, having been at position pc.
FailsAt(s, t, pc) == s.pc = pc /\ t # s /\ IsErr(t.res)

\* C28: a failed counter transfer aborts the operation there and the error is
\* returned.  A failed post: SendData returns without entering the ack wait
\* and nothing was posted.  A failed wait on the send counter: ReadData and
\* Listen return without reading the region, without handler or data and
\* without an ack.  A failed ack post: ReadData returns the error and no
\* data.  In every case no counter changes in the step.
C28_FailedTransferAborts ==
  [][/\ \A c \in SenderCtx :
          /\ FailsAt(ps[c], ps'[c], "post") =>
               ps'[c].pc = "idle" /\ efd' = efd /\ posted' = posted /\ sentOK' = sentOK
          /\ FailsAt(cs[c], cs'[c], "post") =>
               cs'[c].pc = "idle" /\ efd' = efd /\ posted' = posted /\ sentOK' = sentOK
          /\ FailsAt(ps[c], ps'[c], "ack") =>
               ps'[c].pc = "idle" /\ efd' = efd /\ sentOK' = sentOK
          /\ FailsAt(cs[c], cs'[c], "ack") =>
               cs'[c].pc = "idle" /\ efd' = efd /\ sentOK' = sentOK
     /\ FailsAt(pr, pr', "wait") =>
          /\ pr'.pc = "idle" /\ pr'.data = pr.data /\ pr'.lenBuf = pr.lenBuf
          /\ delivered' = delivered /\ efd' = efd
     /\ FailsAt(cl, cl', "wait") =>
          /\ cl'.pc = "returned" /\ cl'.data = cl.data /\ cl'.lenBuf = cl.lenBuf
          /\ delivered' = delivered /\ efd' = efd
     /\ FailsAt(pr, pr', "ack") =>
          pr'.pc = "idle" /\ delivered' = delivered /\ efd' = efd
     /\ FailsAt(cl, cl', "ack") =>
          cl'.pc = "returned" /\ efd' = efd
    ]_vars

\* ReadData has returned the error of a failed ack post: the frame it had
\* copied was not handed over and the child's sender still waits; the
\* parent's own send failed at its post.
C28_Witness ==
  /\ pr.pc = "idle" /\ pr.res = "writeErr" /\ pr.data = cs[1].msg
  /\ Len(delivered.c2p) < Len(posted.c2p) /\ cs[1].pc = "ack"
  /\ ps[1].pc = "idle" /\ ps[1].res = "writeErr" /\ Len(posted.p2c) = 0

\* ------------------------------------------------------------------------
\* The receiver's bound check
\* ------------------------------------------------------------------------

\* The unsigned 64-bit value of buf is above n (n < 2^24).
LengthAbove(buf, n) == (\E i \in 4..EfdBytes : buf[i] # 0) \/ Low24(buf) > n

\* C29 as claimed: no drained length above shmSize gets past the receiver's
\* bound check to the allocation and the region slice, over the whole 64-bit
\* range.
C29_BoundCheckWholeRange ==
  /\ cl.pc = "handle" => ~LengthAbove(cl.lenBuf, C.shmSize)
  /\ pr.pc = "copy" => ~LengthAbove(pr.lenBuf, P.shmSize)

\* The Go Listen let a length with the top bit set through and the
\* allocation that follows the check has brought the child down.
C29_Witness ==
  /\ impl = "go"
  /\ cl.res = "panic" /\ childProc = "zombie"
  /\ LengthAbove(cl.lenBuf, C.shmSize)

\* ------------------------------------------------------------------------
\* The descriptor remapping of the Go child driver
\* ------------------------------------------------------------------------

\* runChild has got past its dup2 statements: it built the endpoint or died
\* building it.
DriverRan == C.made \/ childProc = "zombie"

\* C31 as claimed: for every assignment of the -fd-* flags, after the
\* driver's dup2 statements the descriptor each flag names refers to the
\* object that was inherited at the flag's fixed slot.
C31_DriverWiring ==
  DriverRan =>
    \A i \in 1..Len(FlagOrder) : cfd[flags[FlagOrder[i]]] = SlotFields[i]

\* With -fd-p2c-send 4 -fd-p2c-ack 3 the endpoint is built, and both flags
\* name the P2C send counter: dup2(3, 4) replaced the ack counter before
\* dup2(4, 3) could copy it.
C31_Witness ==
  /\ C.made
  /\ flags = [ChildFlags EXCEPT !.fdP2CSend = 4, !.fdP2CAck = 3]
  /\ cfd[C.fdP2CSend] = "efdP2CSend" /\ cfd[C.fdP2CAck] = "efdP2CSend"

====
